---- MODULE Spec2Model ----
(***************************************************************************)
(* Verification model of sysdevrun/nfc-cdc-browser-reader: the frame codecs *)
(* (LRC and CRC-16 frames), the serial transceiver variants and the App's   *)
(* polling loop.                                                            *)
(***************************************************************************)
EXTENDS Integers, Sequences, FiniteSets, TLC

VARIABLES
    cpc,        \* codec pipeline: position of the caller
    payload,    \* codec pipeline: the APDU handed to buildFrame
    frame,      \* codec pipeline: bytes on the wire (built, possibly corrupted)
    parsed,     \* codec pipeline: result of parseFrame
    resp,       \* hunt pipeline: outcome of transceive (bytes or a throw)
    huntResult, \* hunt pipeline: NfcCommandResult of cardHunt
    fop,        \* function calls: which function was called, "none" before
    fin,        \* function calls: the function's name, then its arguments
    fout,       \* function calls: <<returned value>>, empty before the call
    ppc,        \* startPolling: where the poll loop stands
    running,    \* startPolling: let running
    lastUid,    \* startPolling: let lastUid
    polls,      \* startPolling: the result of each finished getCardUid, in order
    detected,   \* startPolling: the calls of onCardDetected, in order
    stopped,    \* startPolling: the returned stop function has been called
    variant,    \* which transceiveSerial is running: "ws", "p1", "nc", "p2" or "p3"
    logCallback, \* part_003: let logCallback: "none" (null), "returns" or "throws"
    readerGen,  \* part_002: which reader device.reader holds, 0 the one of connect
    dev,        \* SerialDevice: [reader, writer] available (non-null)
    pc,         \* position of transceiveSerial
    exch,       \* number of exchanges started
    now,        \* Date.now(), in ms since the exchange started
    startTime,  \* startTime of the running read/flush loop
    deadline,   \* when the running setTimeout fires
    chunks,     \* chunks collected by the running receive loop
    outcome,    \* what the last transceiveSerial returned or threw
    stage,      \* which response read of the exchange is running (1 or 2)
    initialResponse, \* part_001: what the first response read returned
    pendingRead, \* part_003: device.pendingRead, as the exchange that stored it
    script,     \* ghost: how the hardware answers the command of this exchange
    devq,       \* chunks the reader hardware has still to send
    held,       \* chunks the reader hardware sends once it is polled
    inbuf,      \* chunks queued in the ReadableStream, not yet read
    reads,      \* read() requests pending on the stream reader, oldest first
    awaiting,   \* the newest pending read() is the one the code is racing
    got,        \* the value the raced read() resolved with, if it has
    nextId,     \* ghost: number of chunks the hardware has produced
    flushed,    \* ghost: chunks clearSerialBuffer discarded in this exchange
    rxlog,      \* ghost: chunks handed to the receive loops of this exchange
    lost,       \* ghost: chunks that resolved a read() nobody awaits any more
    events,     \* ghost: flush/write/read-call order of this exchange
    device,     \* App: the device state is set (a reader is connected)
    isPolling,  \* App: the isPolling state
    pollingRef, \* App: pollingRef.current
    loops,      \* App: the running pollLoop calls, each at its await
    uidCalls,   \* App: handleGetUid calls awaiting getCardUid
    customCalls, \* App: handleCustomCommand calls awaiting their exchange
    disconnects \* App: handleDisconnect calls awaiting disconnectSerialPort

fnVars == <<fop, fin, fout>>
pipeVars == <<cpc, payload, frame, parsed, resp, huntResult>>
pollVars == <<ppc, running, lastUid, polls, detected, stopped>>
codecVars == <<pipeVars, fnVars, pollVars>>
auxVars == <<stage, initialResponse, pendingRead, script>>
progVars == <<variant, logCallback, readerGen, dev, pc, exch, now, startTime, deadline, chunks, outcome, auxVars>>
streamVars == <<devq, held, inbuf, reads, awaiting, got, nextId>>
ghostVars == <<flushed, rxlog, lost, events>>
xcvVars == <<progVars, streamVars, ghostVars>>
appVars == <<device, isPolling, pollingRef, loops, uidCalls, customCalls, disconnects>>
vars == <<codecVars, xcvVars, appVars>>

----------------------------------------------------------------------------
(* Bounds of the model *)

MaxPayloadLen == 3
LongLen == 258
MaxExchanges == 2
MaxLoops == 2
MaxCalls == 2
Quantum == 300

(* Byte arithmetic *)

RECURSIVE Xor(_, _)
Xor(a, b) ==
    IF a = 0 THEN b
    ELSE IF b = 0 THEN a
    ELSE ((a + b) % 2) + 2 * Xor(a \div 2, b \div 2)

RECURSIVE And(_, _)
And(a, b) ==
    IF a = 0 \/ b = 0 THEN 0
    ELSE ((a % 2) * (b % 2)) + 2 * And(a \div 2, b \div 2)

Pow2(k) == CASE k = 0 -> 1 [] k = 1 -> 2 [] k = 2 -> 4 [] k = 3 -> 8
             [] k = 4 -> 16 [] k = 5 -> 32 [] k = 6 -> 64 [] k = 7 -> 128

\* Uint8Array.subarray(from, to) / slice(from, to), 0-based, end excluded
subarray(s, from, to) ==
    LET hi == IF to > Len(s) THEN Len(s) ELSE to
    IN  IF from >= hi THEN <<>> ELSE [i \in 1..(hi - from) |-> s[from + i]]

\* s[i] with the 0-based index of the source
at(s, i) == s[i + 1]

----------------------------------------------------------------------------
(* LRC frame codec: nfc-commands.ts *)

STX == 2
ETX == 3

NoError == "undefined"

\* let lrc = 0; for (const byte of data) lrc ^= byte -- the loop is run in
\* blocks of 32 bytes to keep the evaluation shallow
calculateLrc(data) ==
    LET n == Len(data)
        run[lo \in Nat, hi \in Nat, lrc \in Nat] ==
            IF lo > hi THEN lrc ELSE run[lo + 1, hi, Xor(lrc, data[lo])]
        blocks[lo \in Nat, lrc \in Nat] ==
            IF lo > n THEN lrc
            ELSE blocks[lo + 32, run[lo, IF lo + 31 < n THEN lo + 31 ELSE n, lrc]]
    IN  blocks[1, 0]

\* LRC over STX..DATA only, leaving ETX out of the checksum
buildFrameLrcSkipsEtx(data) ==
    LET len  == Len(data)
        head == <<STX, And(len \div 256, 255), And(len, 255)>> \o data
    IN  head \o <<ETX>> \o <<calculateLrc(head)>>

buildFrame(data) ==
    LET len  == Len(data)
        body == <<STX, And(len \div 256, 255), And(len, 255)>> \o data \o <<ETX>>
    IN  body \o <<calculateLrc(subarray(body, 0, 4 + len))>>

\* parseFrame that accepts any frame with STX/LEN/ETX in place
parseFrameNoLrcCheck(response) ==
    IF Len(response) < 5 THEN [success |-> TRUE, data |-> response, error |-> NoError]
    ELSE IF at(response, 0) = STX
    THEN LET len == at(response, 1) * 256 + at(response, 2)
             etxPos == 3 + len
         IN  IF Len(response) >= len + 5 /\ at(response, etxPos) = ETX
             THEN [success |-> TRUE, data |-> subarray(response, 3, 3 + len),
                   error |-> NoError]
             ELSE [success |-> FALSE, data |-> response,
                   error |-> "Invalid frame checksum"]
    ELSE [success |-> TRUE, data |-> response, error |-> NoError]

parseFrame(response) ==
    IF Len(response) < 5 THEN [success |-> TRUE, data |-> response, error |-> NoError]
    ELSE IF at(response, 0) = STX
    THEN LET len == at(response, 1) * 256 + at(response, 2)
             etxPos == 3 + len
         IN  IF /\ Len(response) >= len + 5
                /\ at(response, etxPos) = ETX
                /\ at(response, etxPos + 1) = calculateLrc(subarray(response, 0, etxPos + 1))
             THEN [success |-> TRUE, data |-> subarray(response, 3, 3 + len),
                   error |-> NoError]
             ELSE [success |-> FALSE, data |-> response,
                   error |-> "Invalid frame checksum"]
    ELSE [success |-> TRUE, data |-> response, error |-> NoError]

----------------------------------------------------------------------------
(* CRC frame codec and hunt decoder: nfc-device.ts *)

Undef == "undefined"

HexUpper == <<"0", "1", "2", "3", "4", "5", "6", "7",
              "8", "9", "A", "B", "C", "D", "E", "F">>
HexLower == <<"0", "1", "2", "3", "4", "5", "6", "7",
              "8", "9", "a", "b", "c", "d", "e", "f">>

\* b.toString(16).padStart(2, '0').toUpperCase()
hex2Upper(b) == HexUpper[(b \div 16) + 1] \o HexUpper[(b % 16) + 1]
\* b.toString(16).padStart(2, '0')
hex2Lower(b) == HexLower[(b \div 16) + 1] \o HexLower[(b % 16) + 1]
\* b.toString(16)
hexLower(b) == IF b < 16 THEN HexLower[b + 1] ELSE hex2Lower(b)

\* Array.from(data).map(hex2).join(' ')
toHex(data) ==
    LET join[i \in Nat, str \in STRING] ==
            IF i > Len(data) THEN str
            ELSE join[i + 1, IF i = 1 THEN hex2Upper(data[i])
                             ELSE str \o " " \o hex2Upper(data[i])]
    IN  join[1, ""]

\* one round of the inner loop: shift left, xor the polynomial on carry, mask
crcBit(crc) ==
    IF And(crc, 32768) # 0
    THEN And(Xor(crc * 2, 4129), 65535)
    ELSE And(crc * 2, 65535)

\* for each byte: crc ^= byte << 8, then the eight rounds of the inner loop
crc16Ccitt(data) ==
    LET n == Len(data)
        rounds[i \in Nat, crc \in Nat] ==
            IF i = 8 THEN crc ELSE rounds[i + 1, crcBit(crc)]
        \* the bytes lo..hi in order, the first half before the second
        span[lo \in Nat, hi \in Nat, crc \in Nat] ==
            IF lo > hi THEN crc
            ELSE IF lo = hi THEN rounds[0, Xor(crc, data[lo] * 256)]
            ELSE LET mid == (lo + hi) \div 2
                 IN  span[mid + 1, hi, span[lo, mid, crc]]
    IN  span[1, n, 65535]

parseHuntResponseErrorAtStatus(response) ==
    IF Len(response) < 4
    THEN [success |-> FALSE, message |-> "Response too short", data |-> response,
          hasData |-> TRUE,
          hexData |-> toHex(response), atqa |-> Undef, sak |-> Undef, comType |-> <<>>]
    ELSE LET len == at(response, 0) IN
    IF len <= 4 /\ Len(response) >= 6
    THEN LET errorCode == at(response, 3) IN
         IF errorCode = 111
         THEN [success |-> FALSE, message |-> "No card in field", data |-> response,
               hasData |-> TRUE,
               hexData |-> toHex(response), atqa |-> Undef, sak |-> Undef,
               comType |-> <<>>]
         ELSE [success |-> FALSE, message |-> "Reader error: 0x" \o hex2Lower(errorCode),
               data |-> response, hasData |-> TRUE, hexData |-> toHex(response),
               atqa |-> Undef, sak |-> Undef, comType |-> <<>>]
    ELSE IF /\ len >= 7
            /\ Len(response) >= len + 4
            /\ Len(response) >= 13
            /\ (at(response, 12) = 0 \/ len = 11)
    THEN LET uid == subarray(response, 8, 12) IN
         [success |-> TRUE, message |-> "Card found! UID: " \o toHex(uid), data |-> uid,
          hasData |-> TRUE,
          hexData |-> toHex(uid), atqa |-> toHex(subarray(response, 4, 6)),
          sak |-> hex2Upper(at(response, 7)), comType |-> <<at(response, 4)>>]
    ELSE [success |-> FALSE, message |-> "Unknown response (LEN=0x" \o hexLower(len) \o ")",
          data |-> response, hasData |-> TRUE, hexData |-> toHex(response),
          atqa |-> Undef, sak |-> Undef, comType |-> <<>>]

parseHuntResponseNoLengthCheck(response) ==
    IF Len(response) < 4
    THEN [success |-> FALSE, message |-> "Response too short", data |-> response,
          hasData |-> TRUE,
          hexData |-> toHex(response), atqa |-> Undef, sak |-> Undef, comType |-> <<>>]
    ELSE LET len == at(response, 0) IN
    IF len <= 4 /\ Len(response) >= 6
    THEN LET errorCode == at(response, 4) IN
         IF errorCode = 111
         THEN [success |-> FALSE, message |-> "No card in field", data |-> response,
               hasData |-> TRUE,
               hexData |-> toHex(response), atqa |-> Undef, sak |-> Undef,
               comType |-> <<>>]
         ELSE [success |-> FALSE, message |-> "Reader error: 0x" \o hex2Lower(errorCode),
               data |-> response, hasData |-> TRUE, hexData |-> toHex(response),
               atqa |-> Undef, sak |-> Undef, comType |-> <<>>]
    ELSE IF /\ len >= 7
            /\ Len(response) >= 13
            /\ (at(response, 12) = 0 \/ len = 11)
    THEN LET uid == subarray(response, 8, 12) IN
         [success |-> TRUE, message |-> "Card found! UID: " \o toHex(uid), data |-> uid,
          hasData |-> TRUE,
          hexData |-> toHex(uid), atqa |-> toHex(subarray(response, 4, 6)),
          sak |-> hex2Upper(at(response, 7)), comType |-> <<at(response, 4)>>]
    ELSE [success |-> FALSE, message |-> "Unknown response (LEN=0x" \o hexLower(len) \o ")",
          data |-> response, hasData |-> TRUE, hexData |-> toHex(response),
          atqa |-> Undef, sak |-> Undef, comType |-> <<>>]

parseHuntResponse(response) ==
    IF Len(response) < 4
    THEN [success |-> FALSE, message |-> "Response too short", data |-> response,
          hasData |-> TRUE,
          hexData |-> toHex(response), atqa |-> Undef, sak |-> Undef, comType |-> <<>>]
    ELSE LET len == at(response, 0) IN
    IF len <= 4 /\ Len(response) >= 6
    THEN LET errorCode == at(response, 4) IN
         IF errorCode = 111
         THEN [success |-> FALSE, message |-> "No card in field", data |-> response,
               hasData |-> TRUE,
               hexData |-> toHex(response), atqa |-> Undef, sak |-> Undef,
               comType |-> <<>>]
         ELSE [success |-> FALSE, message |-> "Reader error: 0x" \o hex2Lower(errorCode),
               data |-> response, hasData |-> TRUE, hexData |-> toHex(response),
               atqa |-> Undef, sak |-> Undef, comType |-> <<>>]
    ELSE IF /\ len >= 7
            /\ Len(response) >= len + 4
            /\ Len(response) >= 13
            /\ (at(response, 12) = 0 \/ len = 11)
    THEN LET uid == subarray(response, 8, 12) IN
         [success |-> TRUE, message |-> "Card found! UID: " \o toHex(uid), data |-> uid,
          hasData |-> TRUE,
          hexData |-> toHex(uid), atqa |-> toHex(subarray(response, 4, 6)),
          sak |-> hex2Upper(at(response, 7)), comType |-> <<at(response, 4)>>]
    ELSE [success |-> FALSE, message |-> "Unknown response (LEN=0x" \o hexLower(len) \o ")",
          data |-> response, hasData |-> TRUE, hexData |-> toHex(response),
          atqa |-> Undef, sak |-> Undef, comType |-> <<>>]

\* the outcome of transceive: it throws, or it returns a byte buffer
Threw(msg) == [threw |-> TRUE, bytes |-> <<>>, err |-> msg]
Returned(b) == [threw |-> FALSE, bytes |-> b, err |-> Undef]

sendCommandEmptyIsOk(xfer) ==
    IF xfer.threw
    THEN [success |-> FALSE, message |-> "Command failed: " \o xfer.err,
          data |-> <<>>, hasData |-> FALSE, hexData |-> Undef, atqa |-> Undef, sak |-> Undef,
          comType |-> <<>>]
    ELSE IF FALSE
    THEN [success |-> FALSE, message |-> "No response from reader",
          data |-> <<>>, hasData |-> FALSE, hexData |-> Undef, atqa |-> Undef, sak |-> Undef,
          comType |-> <<>>]
    ELSE [success |-> TRUE, message |-> "OK", data |-> xfer.bytes, hasData |-> TRUE,
          hexData |-> toHex(xfer.bytes), atqa |-> Undef, sak |-> Undef,
          comType |-> <<>>]

sendCommand(xfer) ==
    IF xfer.threw
    THEN [success |-> FALSE, message |-> "Command failed: " \o xfer.err,
          data |-> <<>>, hasData |-> FALSE, hexData |-> Undef, atqa |-> Undef, sak |-> Undef,
          comType |-> <<>>]
    ELSE IF Len(xfer.bytes) = 0
    THEN [success |-> FALSE, message |-> "No response from reader",
          data |-> <<>>, hasData |-> FALSE, hexData |-> Undef, atqa |-> Undef, sak |-> Undef,
          comType |-> <<>>]
    ELSE [success |-> TRUE, message |-> "OK", data |-> xfer.bytes, hasData |-> TRUE,
          hexData |-> toHex(xfer.bytes), atqa |-> Undef, sak |-> Undef,
          comType |-> <<>>]

\* transceive of nfc-device.ts: throws without a serial device, else gives what
\* transceiveSerial gives
transceive(connected, serialOutcome) ==
    IF connected THEN serialOutcome ELSE Threw("No device connected")

\* the promise of sendCommand: its whole body is inside try, and the catch block
\* returns a result, so the promise is fulfilled whatever transceive does
sendCommandPromise(xfer) == [state |-> "fulfilled", value |-> sendCommand(xfer)]

cardHunt(xfer) ==
    LET result == sendCommand(xfer) IN
    IF result.success /\ result.hasData
    THEN parseHuntResponse(result.data)
    ELSE result

\* a store into a Uint8Array element keeps the low eight bits of the number
byte(n) == n % 256

\* a string is the sequence of its characters
isSpace(c) == c \in {" ", "\t", "\n", "\r"}
isHexDigit(c) == \E v \in 0..15 : c = HexLower[v + 1] \/ c = HexUpper[v + 1]
hexValue(c) == CHOOSE v \in 0..15 : c = HexLower[v + 1] \/ c = HexUpper[v + 1]

\* parseInt(two characters, 16): the value of the longest prefix of hex digits as
\* <<value>>, and <<>> for NaN when the first character is no hex digit
parseInt16(c1, c2) ==
    IF ~isHexDigit(c1) THEN <<>>
    ELSE IF ~isHexDigit(c2) THEN <<hexValue(c1)>>
    ELSE <<16 * hexValue(c1) + hexValue(c2)>>

\* hex.replace(/\s+/g, ''); new Uint8Array(cleanHex.length / 2) rounds the length
\* down; a NaN stored into a Uint8Array element is 0; nothing here throws
fromHex(hex) ==
    LET cleanHex == SelectSeq(hex, LAMBDA c : ~isSpace(c))
        stored(n) == IF n = <<>> THEN 0 ELSE byte(n[1])
    IN  [i \in 1..(Len(cleanHex) \div 2) |->
            stored(parseInt16(cleanHex[2 * i - 1], cleanHex[2 * i]))]

\* try { sendCommand(device, fromHex(hexCommand)) } catch { 'Invalid hex command' }:
\* neither call throws, so the catch branch is never taken. connected says
\* whether device.serialDevice is set; written lists the writes to the stream.
sendCustomCommand(hexCommand, connected, reply) ==
    LET command == fromHex(hexCommand) IN
    [result  |-> sendCommand(IF connected THEN Returned(reply)
                             ELSE Threw("No device connected")),
     written |-> IF connected THEN <<command>> ELSE <<>>]

\* nfc-device.ts, firmware version. A decoded text is the sequence of its
\* character codes (String.fromCharCode of a byte is the character of that
\* code); an optional field is <<>> when undefined and <<text>> otherwise.
\* \s for codes below 256: tab, LF, VT, FF, CR, space, no-break space
isWhiteSpace(c) == c \in {9, 10, 11, 12, 13, 32, 160}

RECURSIVE trimStart(_)
trimStart(text) ==
    IF text # <<>> /\ isWhiteSpace(Head(text)) THEN trimStart(Tail(text)) ELSE text

RECURSIVE trimEnd(_)
trimEnd(text) ==
    IF text # <<>> /\ isWhiteSpace(text[Len(text)])
    THEN trimEnd(SubSeq(text, 1, Len(text) - 1)) ELSE text

\* text.split(/\s+/) of a trimmed text: cur is the part being read
RECURSIVE splitWhiteSpace(_, _, _)
splitWhiteSpace(text, cur, parts) ==
    IF text = <<>> THEN Append(parts, cur)
    ELSE IF isWhiteSpace(Head(text))
    THEN splitWhiteSpace(Tail(text), <<>>, IF cur = <<>> THEN parts ELSE Append(parts, cur))
    ELSE splitWhiteSpace(Tail(text), Append(cur, Head(text)), parts)

\* parts[i] || undefined
part(parts, i) == IF i < Len(parts) /\ parts[i + 1] # <<>> THEN <<parts[i + 1]>> ELSE <<>>

\* `${field}` of an optional text: 'undefined' when it is undefined
interpolate(field) == IF field = <<>> THEN <<117, 110, 100, 101, 102, 105, 110, 101, 100>> ELSE field[1]

\* null is <<>>, a version object is <<version>>
parseVersionResponse(response) ==
    IF Len(response) < 6 THEN <<>>
    ELSE LET versionBytes == subarray(response, 3, Len(response) - 2)
             raw == trimEnd(trimStart(SelectSeq(versionBytes, LAMBDA b : b # 0)))
             parts == splitWhiteSpace(raw, <<>>, <<>>)
             iface == IF Len(parts) > 3
                      THEN SelectSeq(parts[4], LAMBDA c : c \notin {60, 62}) ELSE <<>>
         IN  <<[raw |-> raw,
                model |-> part(parts, 0),
                type |-> part(parts, 1),
                version |-> part(parts, 2),
                interface |-> IF iface = <<>> THEN <<>> ELSE <<iface>>,
                buildDate |-> IF Len(parts) > 6
                              THEN <<parts[5] \o <<32>> \o parts[6] \o <<32>> \o parts[7]>>
                              ELSE <<>>,
                buildTime |-> part(parts, 7),
                manufacturer |-> "ASK"]>>

\* the message of a success is the text `${model} ${type} v${version}`, that of a
\* failure is sendCommand's message ('OK' for a reply that could not be parsed)
getFirmwareVersion(xfer) ==
    LET result == sendCommand(xfer)
        version == IF result.success /\ result.hasData
                   THEN parseVersionResponse(result.data) ELSE <<>>
    IN  IF version # <<>>
        THEN [success |-> TRUE, version |-> version,
              message |-> interpolate(version[1].model) \o <<32>>
                              \o interpolate(version[1].type) \o <<32, 118>>
                              \o interpolate(version[1].version),
              hexData |-> result.hexData]
        ELSE [success |-> FALSE, version |-> <<>>,
              message |-> IF result.message # "" THEN result.message
                          ELSE "Failed to get firmware version",
              hexData |-> result.hexData]

\* nfc-commands.ts, APDU commands: the NfcCommandResult of each, as a function
\* of the outcome of transceive
ApduFailure(msg) ==
    [success |-> FALSE, message |-> msg, data |-> <<>>, hasData |-> FALSE, hexData |-> Undef]

sendApdu(xfer) ==
    IF xfer.threw THEN ApduFailure("Command failed: " \o xfer.err)
    ELSE IF Len(xfer.bytes) = 0 THEN ApduFailure("No response from reader")
    ELSE LET unframed == parseFrame(xfer.bytes) IN
         [success |-> unframed.success, data |-> unframed.data, hasData |-> TRUE,
          hexData |-> toHex(unframed.data),
          message |-> IF unframed.error = NoError THEN "OK" ELSE unframed.error]

\* result.success && result.data && result.data.length >= 2
hasStatusWord(result) == result.success /\ result.hasData /\ Len(result.data) >= 2
sw1(result) == at(result.data, Len(result.data) - 2)
sw2(result) == at(result.data, Len(result.data) - 1)
withoutStatusWord(result) == subarray(result.data, 0, Len(result.data) - 2)
\* sw1.toString(16).padStart(2, '0') followed by the same of sw2
swText(result) == hex2Lower(sw1(result)) \o hex2Lower(sw2(result))

getCardUid(xfer) ==
    LET result == sendApdu(xfer) IN
    IF ~hasStatusWord(result) THEN result
    ELSE IF sw1(result) = 144 /\ sw2(result) = 0
    THEN LET uid == withoutStatusWord(result) IN
         [result EXCEPT !.message = "UID: " \o toHex(uid) \o " ("
                                        \o ToString(Len(uid) * 8) \o "-bit)",
                        !.data = uid,
                        !.hexData = toHex(uid)]
    ELSE IF sw1(result) = 106 /\ sw2(result) = 129
    THEN [result EXCEPT !.success = FALSE,
                        !.message = "No card present or function not supported"]
    ELSE [result EXCEPT !.success = FALSE,
                        !.message = "Error: SW=" \o swText(result)]

readBlock(xfer, blockNumber) ==
    LET result == sendApdu(xfer) IN
    IF ~hasStatusWord(result) THEN result
    ELSE IF sw1(result) = 144 /\ sw2(result) = 0
    THEN LET data == withoutStatusWord(result) IN
         [result EXCEPT !.message = "Block " \o ToString(blockNumber) \o ": " \o toHex(data),
                        !.data = data,
                        !.hexData = toHex(data)]
    ELSE [result EXCEPT !.success = FALSE,
                        !.message = "Read failed: SW=" \o swText(result)]

authenticate(xfer, blockNumber, keyType) ==
    LET result == sendApdu(xfer) IN
    IF ~hasStatusWord(result) THEN result
    ELSE IF sw1(result) = 144 /\ sw2(result) = 0
    THEN [result EXCEPT !.message = "Authenticated block " \o ToString(blockNumber)
                                        \o " with key " \o keyType]
    ELSE [result EXCEPT !.success = FALSE,
                        !.message = "Authentication failed: SW=" \o swText(result)]

\* the commands loadKey hands to transceive, each one a write followed by reads:
\* none when the key is refused, else the framed FF 82 00 KN 06 K1..K6
loadKeyCommands(keyNumber, key) ==
    IF Len(key) # 6 THEN <<>>
    ELSE <<buildFrame(<<255, 130, 0, And(keyNumber, 1), 6>> \o key)>>

loadKeyNoLengthCheck(xfer, keyNumber, key) ==
    LET result == sendApdu(xfer) IN
    IF ~hasStatusWord(result) THEN result
    ELSE IF sw1(result) = 144 /\ sw2(result) = 0
    THEN [result EXCEPT !.message = "Key " \o ToString(keyNumber) \o " loaded"]
    ELSE [result EXCEPT !.success = FALSE,
                        !.message = "Load key failed: SW=" \o swText(result)]

loadKey(xfer, keyNumber, key) ==
    IF Len(key) # 6 THEN ApduFailure("Key must be 6 bytes")
    ELSE LET result == sendApdu(xfer) IN
    IF ~hasStatusWord(result) THEN result
    ELSE IF sw1(result) = 144 /\ sw2(result) = 0
    THEN [result EXCEPT !.message = "Key " \o ToString(keyNumber) \o " loaded"]
    ELSE [result EXCEPT !.success = FALSE,
                        !.message = "Load key failed: SW=" \o swText(result)]

\* the trailing two bytes are the CRC-16 of the bytes before them, low byte first
crcMatches(r) ==
    /\ Len(r) >= 2
    /\ LET crc == crc16Ccitt(subarray(r, 0, Len(r) - 2))
       IN  /\ r[Len(r) - 1] = And(crc, 255)
           /\ r[Len(r)] = And(crc \div 256, 255)

\* a frame body followed by its CRC-16, low byte first
withCrc(body) ==
    LET crc == crc16Ccitt(body)
    IN  body \o <<And(crc, 255), And(crc \div 256, 255)>>

CMD_EXECUTE == 128
CLASS_SYSTEM == 1
SYS_ENTER_HUNT_PHASE == 3

\* frame[0..3] = cmd, 2 + data.length, classId, ident; frame.set(data, 4); then
\* the CRC of the frame, low byte first
buildCommand(cmd, classId, ident, data) ==
    withCrc(<<byte(cmd), byte(2 + Len(data)), byte(classId), byte(ident)>> \o data)

\* the options after destructuring, every default filled in
DefaultHuntOptions ==
    [isoa |-> TRUE, isob |-> FALSE, mifare |-> TRUE, forget |-> TRUE,
     timeout10ms |-> 20, antenna |-> 2]

buildHuntCommand(options) ==
    buildCommand(CMD_EXECUTE, CLASS_SYSTEM, SYS_ENTER_HUNT_PHASE,
        <<0,
          byte(IF options.isob THEN options.antenna ELSE 0),
          byte(IF options.isoa THEN options.antenna ELSE 0),
          17,
          IF options.mifare THEN 3 ELSE 0,
          1,
          IF options.forget THEN 1 ELSE 0,
          byte(options.timeout10ms),
          0>>)

----------------------------------------------------------------------------
(* Inputs of the codec pipeline *)

ByteSample == {0, 2, 3, 255}

LongPayload == [i \in 1..LongLen |-> i % 256]

Payloads ==
    UNION {[1..n -> ByteSample] : n \in 0..MaxPayloadLen} \cup {LongPayload}

\* the frame with bit k of its last (checksum) byte flipped
flipChecksumBit(f, k) ==
    [f EXCEPT ![Len(f)] = Xor(f[Len(f)], Pow2(k))]

\* wire images of the two documented replies to the hunt command
CardFoundBody == <<11, 1, 3, 0, 5, 6, 0, 8, 141, 105, 93, 241, 0>>
CardFoundFixture == CardFoundBody \o <<226, 78>>
NoCardBody == <<4, 1, 3, 0, 111, 0>>
NoCardFixture == NoCardBody \o <<29, 203>>

\* the frame with bit k (0..15) of its two trailing CRC bytes flipped
flipCrcBit(f, k) ==
    IF k < 8 THEN [f EXCEPT ![Len(f) - 1] = Xor(f[Len(f) - 1], Pow2(k))]
    ELSE [f EXCEPT ![Len(f)] = Xor(f[Len(f)], Pow2(k - 8))]

HuntBodies == {CardFoundBody, [CardFoundBody EXCEPT ![13] = 1], NoCardBody}

HuntResponses ==
    {withCrc(b) : b \in HuntBodies}
      \cup {flipCrcBit(withCrc(b), k) : b \in HuntBodies, k \in 0..15}
      \cup {CardFoundFixture, NoCardFixture}
      \cup {subarray(CardFoundFixture, 0, n) : n \in 0..14}

Outcomes ==
    {Returned(r) : r \in HuntResponses} \cup {Threw("Serial port not ready")}

NoParse == [success |-> FALSE, data |-> <<>>, error |-> NoError]
NoResult == [success |-> FALSE, message |-> "", data |-> <<>>, hasData |-> FALSE,
             hexData |-> Undef, atqa |-> Undef, sak |-> Undef, comType |-> <<>>]

----------------------------------------------------------------------------
(* The codec pipeline: build, transmit (possibly corrupted), parse; and    *)
(* cardHunt over every outcome of the exchange                             *)

InitCodecVars ==
    /\ cpc = "idle"
    /\ payload = <<>>
    /\ frame = <<>>
    /\ parsed = NoParse
    /\ resp = Returned(<<>>)
    /\ huntResult = NoResult
    /\ fop = "none"
    /\ fin = <<>>
    /\ fout = <<>>
    /\ ppc = "idle"
    /\ running = FALSE
    /\ lastUid = ""
    /\ polls = <<>>
    /\ detected = <<>>
    /\ stopped = FALSE

BuildFrameStep ==
    /\ cpc = "idle"
    /\ \E p \in Payloads :
          /\ payload' = p
          /\ frame' = buildFrame(p)
    /\ cpc' = "built"
    /\ UNCHANGED <<parsed, resp, huntResult, xcvVars, appVars, fnVars, pollVars>>

\* the line flips one bit of the checksum byte
CorruptChecksum ==
    /\ cpc = "built"
    /\ \E k \in 0..7 : frame' = flipChecksumBit(frame, k)
    /\ cpc' = "corrupted"
    /\ UNCHANGED <<payload, parsed, resp, huntResult, xcvVars, appVars, fnVars, pollVars>>

ParseFrameStep ==
    /\ cpc \in {"built", "corrupted"}
    /\ parsed' = parseFrame(frame)
    /\ cpc' = IF cpc = "built" THEN "parsed" ELSE "parsedCorrupt"
    /\ UNCHANGED <<payload, frame, resp, huntResult, xcvVars, appVars, fnVars, pollVars>>

CardHuntStep ==
    /\ cpc = "idle"
    /\ \E o \in Outcomes :
          /\ resp' = o
          /\ huntResult' = cardHunt(o)
    /\ cpc' = "hunted"
    /\ UNCHANGED <<payload, frame, parsed, xcvVars, appVars, fnVars, pollVars>>

NextCodec ==
    \/ BuildFrameStep
    \/ CorruptChecksum
    \/ ParseFrameStep
    \/ CardHuntStep

----------------------------------------------------------------------------
(* The App: connect, disconnect, Get UID, custom command, polling *)

InitAppVars ==
    /\ device = FALSE
    /\ isPolling = FALSE
    /\ pollingRef = FALSE
    /\ loops = <<>>
    /\ uidCalls = 0
    /\ customCalls = 0
    /\ disconnects = 0

\* handleConnectSerial / handleConnectUsb succeeded: setDevice(nfcDevice)
Connect ==
    /\ ~device
    /\ device' = TRUE
    /\ UNCHANGED <<codecVars, xcvVars, disconnects, isPolling, pollingRef, loops, uidCalls, customCalls>>

\* handleDisconnect up to its await: the polling flag and state are cleared
\* and disconnectSerialPort is called, which cancels the reader at once
handleDisconnect ==
    /\ device
    /\ disconnects < MaxCalls
    /\ pollingRef' = FALSE
    /\ isPolling' = FALSE
    /\ disconnects' = disconnects + 1
    /\ UNCHANGED <<codecVars, xcvVars, device, loops, uidCalls, customCalls>>

\* disconnectSerialPort resolved, the port is closed: setDevice(null)
DisconnectDone ==
    /\ disconnects > 0
    /\ disconnects' = disconnects - 1
    /\ device' = FALSE
    /\ UNCHANGED <<codecVars, xcvVars, isPolling, pollingRef, loops, uidCalls, customCalls>>

\* handleGetUid up to its await: getCardUid(device) starts an exchange
handleGetUid ==
    /\ device
    /\ uidCalls < MaxCalls
    /\ uidCalls' = uidCalls + 1
    /\ UNCHANGED <<codecVars, xcvVars, disconnects, device, isPolling, pollingRef, loops, customCalls>>

\* getCardUid resolves: the rest of handleGetUid logs the result
GetUidDone ==
    /\ uidCalls > 0
    /\ uidCalls' = uidCalls - 1
    /\ UNCHANGED <<codecVars, xcvVars, disconnects, device, isPolling, pollingRef, loops, customCalls>>

\* handleCustomCommand up to its await: the command starts an exchange
handleCustomCommand ==
    /\ device
    /\ customCalls < MaxCalls
    /\ customCalls' = customCalls + 1
    /\ UNCHANGED <<codecVars, xcvVars, disconnects, device, isPolling, pollingRef, loops, uidCalls>>

CustomCommandDone ==
    /\ customCalls > 0
    /\ customCalls' = customCalls - 1
    /\ UNCHANGED <<codecVars, xcvVars, disconnects, device, isPolling, pollingRef, loops, uidCalls>>

\* togglePolling while polling: the flag and the state are cleared
togglePollingOff ==
    /\ device
    /\ isPolling
    /\ pollingRef' = FALSE
    /\ isPolling' = FALSE
    /\ UNCHANGED <<codecVars, xcvVars, disconnects, device, loops, uidCalls, customCalls>>

\* togglePolling while not polling: the flag and the state are set and
\* pollLoop() is called; it runs to its first await, inside getCardUid
togglePollingOn ==
    /\ device
    /\ ~isPolling
    /\ Len(loops) < MaxLoops
    /\ pollingRef' = TRUE
    /\ isPolling' = TRUE
    /\ loops' = Append(loops, "getCardUid")
    /\ UNCHANGED <<codecVars, xcvVars, disconnects, device, uidCalls, customCalls>>

\* a pollLoop's getCardUid resolved or threw: the loop sleeps 500 ms
PollExchangeDone ==
    \E i \in 1..Len(loops) :
        /\ loops[i] = "getCardUid"
        /\ loops' = [loops EXCEPT ![i] = "sleep"]
        /\ UNCHANGED <<codecVars, xcvVars, disconnects, device, isPolling, pollingRef, uidCalls, customCalls>>

remove(s, i) == SubSeq(s, 1, i - 1) \o SubSeq(s, i + 1, Len(s))

\* the 500 ms passed: the while condition is tested again. The device the
\* loop tests is the one captured when togglePolling ran, never null.
PollSleepDone ==
    \E i \in 1..Len(loops) :
        /\ loops[i] = "sleep"
        /\ loops' = IF pollingRef THEN [loops EXCEPT ![i] = "getCardUid"] ELSE remove(loops, i)
        /\ UNCHANGED <<codecVars, xcvVars, disconnects, device, isPolling, pollingRef, uidCalls, customCalls>>

NextApp ==
    \/ Connect
    \/ handleDisconnect
    \/ DisconnectDone
    \/ handleGetUid
    \/ GetUidDone
    \/ handleCustomCommand
    \/ CustomCommandDone
    \/ togglePollingOff
    \/ togglePollingOn
    \/ PollExchangeDone
    \/ PollSleepDone

\* number of exchanges in flight against the device's byte stream
inFlight ==
    Cardinality({i \in 1..Len(loops) : loops[i] = "getCardUid"}) + uidCalls + customCalls

----------------------------------------------------------------------------
(* The byte stream: the reader hardware, the ReadableStream and its reader *)

Min(a, b) == IF a < b THEN a ELSE b
Max(a, b) == IF a > b THEN a ELSE b

\* concatenation of the data of a sequence of chunks, in order
RECURSIVE concatData(_)
concatData(cs) ==
    IF cs = <<>> THEN <<>> ELSE concatData(SubSeq(cs, 1, Len(cs) - 1)) \o cs[Len(cs)].data

\* result.set(chunk, offset) without advancing offset: every chunk lands at 0
combineChunksNoOffset(cs) ==
    IF cs = <<>> THEN <<>>
    ELSE LET total == Len(concatData(cs))
             last == cs[Len(cs)].data
         IN  [i \in 1..total |-> IF i <= Len(last) THEN last[i] ELSE 0]

combineChunks(cs) == concatData(cs)

\* the variant of isCompleteFrame that asks for the exact total length
isCompleteFrameExactLength(data) ==
    IF Len(data) < 4 THEN FALSE
    ELSE LET len == at(data, 0) IN
         \/ (len = 4 /\ Len(data) = 8)
         \/ (len = 11 /\ Len(data) = 15)
         \/ Len(data) = len + 4

isCompleteFrameOffByOne(data) ==
    IF Len(data) < 4 THEN FALSE
    ELSE LET len == at(data, 0) IN
         \/ (len = 4 /\ Len(data) >= 8)
         \/ (len = 11 /\ Len(data) >= 15)
         \/ Len(data) >= len + 3

isCompleteFrame(data) ==
    IF Len(data) < 4 THEN FALSE
    ELSE LET len == at(data, 0) IN
         \/ (len = 4 /\ Len(data) >= 8)
         \/ (len = 11 /\ Len(data) >= 15)
         \/ Len(data) >= len + 4

\* What the hardware answers to one command: chunks it sends unasked, and
\* chunks it sends only after the host polled it with an empty write.
Silent == [first |-> <<>>, polled |-> <<>>]

\* reader behaviour (a): a lone ACK, the payload only after an empty poll
AckThenPolled == [first |-> <<<<1>>>>, polled |-> <<NoCardFixture>>]

\* reader behaviour (b): the ACK prefixed to the payload in one reply
AckPrefixed == [first |-> <<<<1>> \o NoCardFixture>>, polled |-> <<>>]

\* the same two behaviours behind the DLE byte the reader sends on the first
\* command after connect
DleAckThenPolled == [first |-> <<<<16>>, <<1>>>>, polled |-> <<NoCardFixture>>]
DleAckPrefixed == [first |-> <<<<16>>, <<1>> \o NoCardFixture>>, polled |-> <<>>]

\* answers of one frame, whole or in pieces, and no answer at all
FrameScripts ==
    { [first |-> <<NoCardFixture>>, polled |-> <<>>],
      [first |-> <<subarray(NoCardFixture, 0, 3), subarray(NoCardFixture, 3, 7),
                   subarray(NoCardFixture, 7, 8)>>,
       polled |-> <<>>],
      [first |-> <<subarray(NoCardFixture, 0, 3), subarray(NoCardFixture, 3, 4),
                   subarray(NoCardFixture, 4, 5)>>,
       polled |-> <<>>],
      [first |-> <<subarray(NoCardFixture, 0, 2), subarray(NoCardFixture, 2, 3),
                   subarray(NoCardFixture, 3, 4), subarray(NoCardFixture, 4, 5),
                   subarray(NoCardFixture, 5, 8)>>,
       polled |-> <<>>],
      Silent }

\* the ACK in one chunk with the first bytes of the payload, the rest after it
AckThenPieces ==
    [first |-> <<<<1>> \o subarray(NoCardFixture, 0, 2), subarray(NoCardFixture, 2, 8)>>,
     polled |-> <<>>]

\* a reply of 20 bytes in one chunk: length byte 0x10, class, ident, status 0,
\* 14 bytes of data and the CRC
LongReplyFrame == withCrc(<<16, 1, 3, 0>> \o [i \in 1..14 |-> 85])
LongReply == [first |-> <<LongReplyFrame>>, polled |-> <<>>]

AckScripts == {AckThenPolled, AckPrefixed, DleAckThenPolled, DleAckPrefixed}

\* web-serial.ts gives the ACK byte no meaning: for it an ACK answer is one
\* more answer of one or two chunks, so it is run against the frame answers
Scripts(v) ==
    IF v = "ws" THEN FrameScripts
    ELSE IF v = "p3" THEN FrameScripts \cup AckScripts \cup {LongReply}
    ELSE IF v = "p2" THEN FrameScripts \cup AckScripts \cup {AckThenPieces}
    ELSE FrameScripts \cup AckScripts

\* the hunt command of the reader with its default options, CRC included
Command == withCrc(<<128, 11, 1, 3, 0, 0, 2, 17, 3, 1, 1, 20, 0>>)

\* one entry of the trace of an exchange: a write with the bytes written, the
\* start or end of a response read with its result, the end of the flush, the
\* return with the returned bytes
Event(op, bytes) == [op |-> op, bytes |-> bytes]

\* the chunks of a script, numbered from nextId, tagged with the exchange
tagged(datas, from, ex) ==
    [i \in 1..Len(datas) |-> [id |-> from + i - 1, ex |-> ex, data |-> datas[i]]]

DevChoices ==
    { [reader |-> TRUE, writer |-> TRUE],
      [reader |-> FALSE, writer |-> TRUE],
      [reader |-> TRUE, writer |-> FALSE] }

DefaultTimeout == 2000

\* the state after connect, for the variants vs and the log callbacks cbs
InitXcvWith(vs, cbs) ==
    /\ variant \in vs
    /\ logCallback \in cbs
    /\ readerGen = 0
    /\ dev \in DevChoices
    /\ pc = "idle"
    /\ exch = 0
    /\ now = 0
    /\ startTime = 0
    /\ deadline = 0
    /\ chunks = <<>>
    /\ outcome = Returned(<<>>)
    /\ stage = 1
    /\ initialResponse = <<>>
    /\ pendingRead = 0
    /\ script = Silent
    /\ devq = <<>>
    /\ held = <<>>
    /\ inbuf = <<>>
    /\ reads = <<>>
    /\ awaiting = FALSE
    /\ got = <<>>
    /\ nextId = 1
    /\ flushed = <<>>
    /\ rxlog = <<>>
    /\ lost = <<>>
    /\ events = <<>>

\* no log callback is installed unless setSerialLogCallback is called
InitXcvVars(vs) == InitXcvWith(vs, {"none"})

\* device.reader.read(): resolved at once from the stream's queue, else pending
IssueRead(phase) ==
    IF inbuf # <<>>
    THEN /\ got' = <<Head(inbuf)>>
         /\ inbuf' = Tail(inbuf)
         /\ awaiting' = FALSE
         /\ UNCHANGED reads
    ELSE /\ reads' = Append(reads, [phase |-> phase, ex |-> exch])
         /\ awaiting' = TRUE
         /\ got' = <<>>
         /\ UNCHANGED inbuf

\* the hardware sends its next chunk: it resolves the oldest pending read(),
\* or is queued in the stream when no read() is pending
Deliver ==
    /\ devq # <<>>
    /\ devq' = Tail(devq)
    /\ IF reads # <<>>
       THEN /\ reads' = Tail(reads)
            /\ IF Len(reads) = 1 /\ awaiting
               THEN got' = <<Head(devq)>> /\ awaiting' = FALSE /\ UNCHANGED lost
               ELSE /\ lost' = Append(lost, [chunk |-> Head(devq), read |-> Head(reads)])
                    /\ UNCHANGED <<got, awaiting>>
            /\ UNCHANGED inbuf
       ELSE /\ inbuf' = Append(inbuf, Head(devq))
            /\ UNCHANGED <<reads, got, awaiting, lost>>
    /\ UNCHANGED <<codecVars, appVars, progVars, held, nextId, flushed, rxlog, events>>

\* a read() resolved in the same turn as the timer that beat it: its chunk
\* is consumed from the stream but nobody looks at it
dropResolved(phase) ==
    /\ lost' = IF got = <<>> THEN lost
               ELSE Append(lost, [chunk |-> got[1], read |-> [phase |-> phase, ex |-> exch]])
    /\ got' = <<>>

\* the code is suspended on a timer (alone, or raced against a read); time
\* passes only while no resolved await is waiting to resume
Waiting ==
    pc \in {"flushRace", "settle", "recvRace", "recvSleep",
            "srRead", "srSleep", "pollSettle",
            "rdRace", "rdSleep", "recvRace1", "recvSleep1",
            "reconcileRace", "rwRace", "rrRace"}

Tick ==
    /\ Waiting
    /\ got = <<>>
    /\ now < deadline
    /\ now' = Min(now + Quantum, deadline)
    /\ UNCHANGED <<codecVars, appVars, auxVars, variant, logCallback, readerGen, dev, pc, exch, startTime, deadline, chunks,
                   outcome, streamVars, ghostVars>>

----------------------------------------------------------------------------
(* transceiveSerial of web-serial.ts *)

\* transceiveSerial is called; it throws when the reader or writer is missing
StartExchange ==
    /\ pc \in {"idle", "returned"}
    /\ exch < MaxExchanges
    /\ exch' = exch + 1
    /\ now' = 0
    /\ startTime' = 0
    /\ chunks' = <<>>
    /\ flushed' = <<>>
    /\ rxlog' = <<>>
    /\ lost' = <<>>
    /\ events' = <<>>
    /\ stage' = 1
    /\ initialResponse' = <<>>
    /\ IF dev.reader /\ dev.writer
       THEN /\ pc' = IF variant = "p3" THEN "reconcile" ELSE "flushLoop"
            /\ UNCHANGED outcome
       ELSE pc' = "returned" /\ outcome' = Threw("Serial port not ready")
    /\ UNCHANGED <<codecVars, appVars, variant, logCallback, readerGen, dev, deadline, streamVars, pendingRead, script>>

\* clearSerialBuffer: one turn of the while loop, up to the Promise.race
FlushIter ==
    /\ pc = "flushLoop"
    /\ IF now - startTime < 100
       THEN /\ IssueRead("flush")
            /\ deadline' = now + 20
            /\ pc' = "flushRace"
            /\ UNCHANGED events
       ELSE /\ pc' = "write"
            /\ events' = Append(events, Event("flushed", <<>>))
            /\ UNCHANGED <<deadline, inbuf, reads, awaiting, got>>
    /\ UNCHANGED <<codecVars, appVars, auxVars, variant, logCallback, readerGen, dev, exch, now, startTime, chunks, outcome,
                   devq, held, nextId, flushed, rxlog, lost>>

\* the read() won the race with stale data: discard it and keep clearing
FlushReadWins ==
    /\ pc = "flushRace"
    /\ got # <<>>
    /\ flushed' = Append(flushed, got[1])
    /\ got' = <<>>
    /\ pc' = "flushLoop"
    /\ UNCHANGED <<codecVars, appVars, auxVars, variant, logCallback, readerGen, dev, exch, now, startTime, deadline, chunks,
                   outcome, devq, held, inbuf, reads, awaiting, nextId, rxlog, lost,
                   events>>

\* the 20 ms timer won the race: break, the read() stays pending on the reader
FlushTimeout ==
    /\ pc = "flushRace"
    /\ now >= deadline
    /\ dropResolved("flush")
    /\ awaiting' = FALSE
    /\ pc' = "write"
    /\ events' = Append(events, Event("flushed", <<>>))
    /\ UNCHANGED <<codecVars, appVars, auxVars, variant, logCallback, readerGen, dev, exch, now, startTime, deadline, chunks,
                   outcome, devq, held, inbuf, reads, nextId, flushed, rxlog>>

\* writer.write(data): a command makes the reader answer by one of its
\* scripts; an empty write is the poll that releases what the reader held back
sendSerialData(data, trace) ==
    /\ events' = Append(trace, Event("write", data))
    /\ IF data # <<>>
       THEN \E s \in Scripts(variant) :
               /\ script' = s
               /\ devq' = devq \o tagged(s.first, nextId, exch)
               /\ held' = tagged(s.polled, nextId + Len(s.first), exch)
               /\ nextId' = nextId + Len(s.first) + Len(s.polled)
       ELSE /\ devq' = devq \o held
            /\ held' = <<>>
            /\ UNCHANGED <<script, nextId>>

\* sendSerialData(device, command), then the settle delay is started
WriteCommand ==
    /\ pc = "write"
    /\ variant = "ws"
    /\ sendSerialData(Command, events)
    /\ deadline' = now + 150
    /\ pc' = "settle"
    /\ UNCHANGED <<codecVars, appVars, variant, logCallback, readerGen, dev, exch, now, startTime, chunks, outcome,
                   stage, initialResponse, pendingRead,
                   inbuf, reads, awaiting, got, flushed, rxlog, lost>>

\* receiveSerialFrame starting from the chunks the flush discarded
SettleDoneKeepsFlushed ==
    /\ pc = "settle"
    /\ variant = "ws"
    /\ now >= deadline
    /\ chunks' = flushed
    /\ startTime' = now
    /\ events' = Append(events, Event("readStart", <<>>))
    /\ pc' = "recvLoop"
    /\ UNCHANGED <<codecVars, appVars, auxVars, variant, logCallback, readerGen, dev, exch, now, deadline, outcome, streamVars,
                   flushed, rxlog, lost>>

\* the settle delay is over: receiveSerialFrame starts
SettleDone ==
    /\ pc = "settle"
    /\ variant = "ws"
    /\ now >= deadline
    /\ chunks' = <<>>
    /\ startTime' = now
    /\ events' = Append(events, Event("readStart", <<>>))
    /\ pc' = "recvLoop"
    /\ UNCHANGED <<codecVars, appVars, auxVars, variant, logCallback, readerGen, dev, exch, now, deadline, outcome, streamVars,
                   flushed, rxlog, lost>>

\* receiveSerialFrame: one turn of the while loop up to the Promise.race, or
\* the return of whatever was received once the timeout has elapsed
RecvIter ==
    /\ pc = "recvLoop"
    /\ IF now - startTime < DefaultTimeout
       THEN /\ IssueRead("recv")
            /\ deadline' = now + Min(300, Max(50, DefaultTimeout - (now - startTime)))
            /\ pc' = "recvRace"
            /\ UNCHANGED <<outcome, events>>
       ELSE /\ outcome' = Returned(combineChunks(chunks))
            /\ pc' = "returned"
            /\ events' = Append(events, Event("return", combineChunks(chunks)))
            /\ UNCHANGED <<deadline, inbuf, reads, awaiting, got>>
    /\ UNCHANGED <<codecVars, appVars, auxVars, variant, logCallback, readerGen, dev, exch, now, startTime, chunks,
                   devq, held, nextId, flushed, rxlog, lost>>

\* the read() won the race with data: push it, return if the frame is complete
RecvReadWins ==
    /\ pc = "recvRace"
    /\ got # <<>>
    /\ chunks' = Append(chunks, got[1])
    /\ rxlog' = Append(rxlog, got[1])
    /\ got' = <<>>
    /\ IF isCompleteFrame(combineChunks(chunks'))
       THEN /\ outcome' = Returned(combineChunks(chunks'))
            /\ pc' = "returned"
            /\ events' = Append(events, Event("return", combineChunks(chunks')))
       ELSE /\ pc' = "recvLoop"
            /\ UNCHANGED <<outcome, events>>
    /\ UNCHANGED <<codecVars, appVars, auxVars, variant, logCallback, readerGen, dev, exch, now, startTime, deadline,
                   devq, held, inbuf, reads, awaiting, nextId, flushed, lost>>

\* the sub-timeout won the race: the read() stays pending; with data in hand
\* wait 50 ms, then loop
RecvTimeout ==
    /\ pc = "recvRace"
    /\ now >= deadline
    /\ dropResolved("recv")
    /\ awaiting' = FALSE
    /\ IF chunks # <<>>
       THEN pc' = "recvSleep" /\ deadline' = now + 50
       ELSE pc' = "recvLoop" /\ UNCHANGED deadline
    /\ UNCHANGED <<codecVars, appVars, auxVars, variant, logCallback, readerGen, dev, exch, now, startTime, chunks, outcome,
                   devq, held, inbuf, reads, nextId, flushed, rxlog, events>>

RecvSleepDone ==
    /\ pc = "recvSleep"
    /\ now >= deadline
    /\ pc' = "recvLoop"
    /\ UNCHANGED <<codecVars, appVars, auxVars, variant, logCallback, readerGen, dev, exch, now, startTime, deadline, chunks,
                   outcome, streamVars, ghostVars>>

ProgramWS ==
    \/ FlushIter
    \/ FlushReadWins
    \/ FlushTimeout
    \/ WriteCommand
    \/ SettleDone
    \/ RecvIter
    \/ RecvReadWins
    \/ RecvTimeout
    \/ RecvSleepDone

NextWS ==
    \/ StartExchange
    \/ ProgramWS
    \/ Deliver
    \/ Tick

InitWS == InitCodecVars /\ InitAppVars /\ InitXcvVars({"ws"})

SpecWS == InitWS /\ [][NextWS]_vars

\* the event loop runs timers and continuations: time passes and a resumable
\* await is resumed
SpecWSFair == SpecWS /\ WF_vars(Tick) /\ WF_vars(ProgramWS)

----------------------------------------------------------------------------
(* transceiveSerial of nfc-commands.ts: ACK, empty poll, simpleRead *)

WriteCommandNC ==
    /\ pc = "write"
    /\ variant = "nc"
    /\ sendSerialData(Command, events)
    /\ deadline' = now + 150
    /\ pc' = "settle"
    /\ UNCHANGED <<codecVars, appVars, variant, logCallback, readerGen, dev, exch, now, startTime, chunks, outcome,
                   stage, initialResponse, pendingRead,
                   inbuf, reads, awaiting, got, flushed, rxlog, lost>>

\* the 150 ms delay is over: the first simpleRead starts
SettleDoneNC ==
    /\ pc = "settle"
    /\ variant = "nc"
    /\ now >= deadline
    /\ chunks' = <<>>
    /\ startTime' = now
    /\ events' = Append(events, Event("readStart", <<>>))
    /\ pc' = "srLoop"
    /\ UNCHANGED <<codecVars, appVars, auxVars, variant, logCallback, readerGen, dev, exch, now, deadline, outcome,
                   streamVars, flushed, rxlog, lost>>

\* an ACK answered by the delay alone, without the poll write
simpleReadReturnsNoPoll(r) ==
    LET trace == Append(events, Event("readEnd", r)) IN
    IF stage = 1 /\ Len(r) = 1 /\ at(r, 0) = 1
    THEN /\ events' = trace
         /\ deadline' = now + 100
         /\ stage' = 2
         /\ pc' = "pollSettle"
         /\ UNCHANGED <<outcome, devq, held, script, nextId>>
    ELSE /\ outcome' = Returned(r)
         /\ events' = Append(trace, Event("return", r))
         /\ pc' = "returned"
         /\ UNCHANGED <<devq, held, script, nextId, deadline, stage>>

\* simpleRead returns r and transceiveSerial runs on to its next await: a
\* first response that is exactly the ACK byte is answered by the empty poll
\* write and the 100 ms delay; anything else, and whatever the second
\* simpleRead returns, is returned
simpleReadReturns(r) ==
    LET trace == Append(events, Event("readEnd", r)) IN
    IF stage = 1 /\ Len(r) = 1 /\ at(r, 0) = 1
    THEN /\ sendSerialData(<<>>, trace)
         /\ deadline' = now + 100
         /\ stage' = 2
         /\ pc' = "pollSettle"
         /\ UNCHANGED outcome
    ELSE /\ outcome' = Returned(r)
         /\ events' = Append(trace, Event("return", r))
         /\ pc' = "returned"
         /\ UNCHANGED <<devq, held, script, nextId, deadline, stage>>

\* simpleRead: one turn of the while loop up to the await of reader.read().
\* The read is not raced against anything (the AbortController is wired to
\* nothing); deadline only marks the end of the loop's own time window.
SrIter ==
    /\ pc = "srLoop"
    /\ IF now - startTime < DefaultTimeout
       THEN /\ IssueRead("simple")
            /\ deadline' = startTime + DefaultTimeout
            /\ pc' = "srRead"
            /\ UNCHANGED <<outcome, events, devq, held, script, nextId, stage>>
       ELSE /\ simpleReadReturns(combineChunks(chunks))
            /\ UNCHANGED <<inbuf, reads, awaiting, got>>
    /\ UNCHANGED <<codecVars, appVars, variant, logCallback, readerGen, dev, exch, now, startTime, chunks,
                   initialResponse, pendingRead, flushed, rxlog, lost>>

\* the read() resolved: one byte in all, or a complete frame, is returned at
\* once; otherwise wait 50 ms and read again
SrReadDone ==
    /\ pc = "srRead"
    /\ got # <<>>
    /\ chunks' = Append(chunks, got[1])
    /\ rxlog' = Append(rxlog, got[1])
    /\ got' = <<>>
    /\ LET combined == combineChunks(chunks') IN
       IF Len(combined) = 1 \/ isCompleteFrame(combined)
       THEN simpleReadReturns(combined)
       ELSE /\ deadline' = now + 50
            /\ pc' = "srSleep"
            /\ UNCHANGED <<outcome, events, devq, held, script, nextId, stage>>
    /\ UNCHANGED <<codecVars, appVars, variant, logCallback, readerGen, dev, exch, now, startTime,
                   initialResponse, pendingRead, inbuf, reads, awaiting, flushed, lost>>

SrSleepDone ==
    /\ pc = "srSleep"
    /\ now >= deadline
    /\ pc' = "srLoop"
    /\ UNCHANGED <<codecVars, appVars, auxVars, variant, logCallback, readerGen, dev, exch, now, startTime, deadline,
                   chunks, outcome, streamVars, ghostVars>>

\* the 100 ms delay after the poll is over: the second simpleRead starts
PollSettleDoneNC ==
    /\ pc = "pollSettle"
    /\ variant = "nc"
    /\ now >= deadline
    /\ chunks' = <<>>
    /\ startTime' = now
    /\ events' = Append(events, Event("readStart", <<>>))
    /\ pc' = "srLoop"
    /\ UNCHANGED <<codecVars, appVars, auxVars, variant, logCallback, readerGen, dev, exch, now, deadline, outcome,
                   streamVars, flushed, rxlog, lost>>

ProgramNC ==
    \/ WriteCommandNC
    \/ SettleDoneNC
    \/ SrIter
    \/ SrReadDone
    \/ SrSleepDone
    \/ PollSettleDoneNC

----------------------------------------------------------------------------
(* transceiveSerial of part_001: ACK, empty poll, receiveSerialData/Frame *)

WriteCommandP1 ==
    /\ pc = "write"
    /\ variant = "p1"
    /\ sendSerialData(Command, events)
    /\ deadline' = now + 50
    /\ pc' = "settle"
    /\ UNCHANGED <<codecVars, appVars, variant, logCallback, readerGen, dev, exch, now, startTime, chunks, outcome,
                   stage, initialResponse, pendingRead,
                   inbuf, reads, awaiting, got, flushed, rxlog, lost>>

\* the 50 ms delay is over: receiveSerialData(device, 500) starts
SettleDoneP1 ==
    /\ pc = "settle"
    /\ variant = "p1"
    /\ now >= deadline
    /\ chunks' = <<>>
    /\ startTime' = now
    /\ events' = Append(events, Event("readStart", <<>>))
    /\ pc' = "rdLoop"
    /\ UNCHANGED <<codecVars, appVars, auxVars, variant, logCallback, readerGen, dev, exch, now, deadline, outcome,
                   streamVars, flushed, rxlog, lost>>

InitialTimeout == 500

\* receiveSerialData returns r and transceiveSerial runs on to its next await:
\* exactly the ACK byte is answered by the empty poll write and the 100 ms
\* delay; a complete frame is returned; anything else is kept and
\* receiveSerialFrame reads on
receiveSerialDataReturns(r) ==
    LET trace == Append(events, Event("readEnd", r)) IN
    IF Len(r) = 1 /\ at(r, 0) = 1
    THEN /\ sendSerialData(<<>>, trace)
         /\ deadline' = now + 100
         /\ stage' = 2
         /\ pc' = "pollSettle"
         /\ UNCHANGED <<outcome, initialResponse, chunks, startTime>>
    ELSE IF isCompleteFrame(r)
    THEN /\ outcome' = Returned(r)
         /\ events' = Append(trace, Event("return", r))
         /\ pc' = "returned"
         /\ UNCHANGED <<devq, held, script, nextId, deadline, stage, initialResponse,
                        chunks, startTime>>
    ELSE /\ initialResponse' = r
         /\ chunks' = <<>>
         /\ startTime' = now
         /\ events' = Append(trace, Event("readStart", <<>>))
         /\ pc' = "recvLoop1"
         /\ UNCHANGED <<outcome, devq, held, script, nextId, deadline, stage>>

\* receiveSerialData: one turn of the while loop, up to the Promise.race
RdIter ==
    /\ pc = "rdLoop"
    /\ IF now - startTime < InitialTimeout
       THEN /\ IssueRead("data")
            /\ deadline' = now + Min(100, Max(50, InitialTimeout - (now - startTime)))
            /\ pc' = "rdRace"
            /\ UNCHANGED <<outcome, events, devq, held, script, nextId, stage,
                           initialResponse, chunks, startTime>>
       ELSE /\ receiveSerialDataReturns(combineChunks(chunks))
            /\ UNCHANGED <<inbuf, reads, awaiting, got>>
    /\ UNCHANGED <<codecVars, appVars, variant, logCallback, readerGen, dev, exch, now, pendingRead, flushed, rxlog, lost>>

\* the read() won the race with data: push it, wait 20 ms, loop
RdReadWins ==
    /\ pc = "rdRace"
    /\ got # <<>>
    /\ chunks' = Append(chunks, got[1])
    /\ rxlog' = Append(rxlog, got[1])
    /\ got' = <<>>
    /\ deadline' = now + 20
    /\ pc' = "rdSleep"
    /\ UNCHANGED <<codecVars, appVars, auxVars, variant, logCallback, readerGen, dev, exch, now, startTime, outcome,
                   devq, held, inbuf, reads, awaiting, nextId, flushed, lost, events>>

RdSleepDone ==
    /\ pc = "rdSleep"
    /\ now >= deadline
    /\ pc' = "rdLoop"
    /\ UNCHANGED <<codecVars, appVars, auxVars, variant, logCallback, readerGen, dev, exch, now, startTime, deadline,
                   chunks, outcome, streamVars, ghostVars>>

\* the sub-timeout won the race: the read() stays pending; with data in hand
\* the loop is left, without data it goes on
RdTimeout ==
    /\ pc = "rdRace"
    /\ now >= deadline
    /\ dropResolved("data")
    /\ awaiting' = FALSE
    /\ IF chunks # <<>>
       THEN receiveSerialDataReturns(combineChunks(chunks))
       ELSE /\ pc' = "rdLoop"
            /\ UNCHANGED <<outcome, events, devq, held, script, nextId, deadline, stage,
                           initialResponse, chunks, startTime>>
    /\ UNCHANGED <<codecVars, appVars, variant, logCallback, readerGen, dev, exch, now, pendingRead, inbuf, reads,
                   flushed, rxlog>>

\* the 100 ms delay after the poll is over: receiveSerialFrame starts
PollSettleDoneP1 ==
    /\ pc = "pollSettle"
    /\ variant = "p1"
    /\ now >= deadline
    /\ chunks' = <<>>
    /\ startTime' = now
    /\ events' = Append(events, Event("readStart", <<>>))
    /\ pc' = "recvLoop1"
    /\ UNCHANGED <<codecVars, appVars, auxVars, variant, logCallback, readerGen, dev, exch, now, deadline, outcome,
                   streamVars, flushed, rxlog, lost>>

\* receiveSerialFrame returns r: after the poll it is the result; after a
\* partial first response the result is that response followed by r
receiveSerialFrameReturns(r) ==
    LET trace == Append(events, Event("readEnd", r))
        result == IF stage = 2 THEN r ELSE initialResponse \o r
    IN  /\ outcome' = Returned(result)
        /\ events' = Append(trace, Event("return", result))
        /\ pc' = "returned"

RecvIterP1 ==
    /\ pc = "recvLoop1"
    /\ IF now - startTime < DefaultTimeout
       THEN /\ IssueRead("recv")
            /\ deadline' = now + Min(300, Max(50, DefaultTimeout - (now - startTime)))
            /\ pc' = "recvRace1"
            /\ UNCHANGED <<outcome, events>>
       ELSE /\ receiveSerialFrameReturns(combineChunks(chunks))
            /\ UNCHANGED <<deadline, inbuf, reads, awaiting, got>>
    /\ UNCHANGED <<codecVars, appVars, auxVars, variant, logCallback, readerGen, dev, exch, now, startTime, chunks,
                   devq, held, nextId, flushed, rxlog, lost>>

RecvReadWinsP1 ==
    /\ pc = "recvRace1"
    /\ got # <<>>
    /\ chunks' = Append(chunks, got[1])
    /\ rxlog' = Append(rxlog, got[1])
    /\ got' = <<>>
    /\ IF isCompleteFrame(combineChunks(chunks'))
       THEN receiveSerialFrameReturns(combineChunks(chunks'))
       ELSE /\ pc' = "recvLoop1"
            /\ UNCHANGED <<outcome, events>>
    /\ UNCHANGED <<codecVars, appVars, auxVars, variant, logCallback, readerGen, dev, exch, now, startTime, deadline,
                   devq, held, inbuf, reads, awaiting, nextId, flushed, lost>>

RecvTimeoutP1 ==
    /\ pc = "recvRace1"
    /\ now >= deadline
    /\ dropResolved("recv")
    /\ awaiting' = FALSE
    /\ IF chunks # <<>>
       THEN pc' = "recvSleep1" /\ deadline' = now + 50
       ELSE pc' = "recvLoop1" /\ UNCHANGED deadline
    /\ UNCHANGED <<codecVars, appVars, auxVars, variant, logCallback, readerGen, dev, exch, now, startTime, chunks, outcome,
                   devq, held, inbuf, reads, nextId, flushed, rxlog, events>>

RecvSleepDoneP1 ==
    /\ pc = "recvSleep1"
    /\ now >= deadline
    /\ pc' = "recvLoop1"
    /\ UNCHANGED <<codecVars, appVars, auxVars, variant, logCallback, readerGen, dev, exch, now, startTime, deadline,
                   chunks, outcome, streamVars, ghostVars>>

ProgramP1 ==
    \/ WriteCommandP1
    \/ SettleDoneP1
    \/ RdIter
    \/ RdReadWins
    \/ RdSleepDone
    \/ RdTimeout
    \/ PollSettleDoneP1
    \/ RecvIterP1
    \/ RecvReadWinsP1
    \/ RecvTimeoutP1
    \/ RecvSleepDoneP1

\* the flush of clearSerialBuffer, the same code in the three files
Flush ==
    \/ FlushIter
    \/ FlushReadWins
    \/ FlushTimeout

\* nfc-commands.ts alone; the timers fire, the code resumes when it can and
\* the hardware sends what it has to send
NextNC ==
    \/ StartExchange
    \/ Flush
    \/ ProgramNC
    \/ Deliver
    \/ Tick

InitNC == InitCodecVars /\ InitAppVars /\ InitXcvVars({"nc"})

SpecNC == InitNC /\ [][NextNC]_vars

SpecNCFair ==
    SpecNC /\ WF_vars(Tick) /\ WF_vars(Flush) /\ WF_vars(ProgramNC) /\ WF_vars(Deliver)

NextAck ==
    \/ StartExchange
    \/ Flush
    \/ ProgramNC
    \/ ProgramP1
    \/ Deliver
    \/ Tick

InitAck == InitCodecVars /\ InitAppVars /\ InitXcvVars({"nc", "p1"})

SpecAck == InitAck /\ [][NextAck]_vars

----------------------------------------------------------------------------
(* transceiveSerial of part_002: the reader is cancelled and re-acquired   *)
(* when a read of readResponse times out                                   *)

\* sendSerialData(device, command), then readResponse starts
WriteCommandP2 ==
    /\ pc = "write"
    /\ variant = "p2"
    /\ sendSerialData(Command, events)
    /\ chunks' = <<>>
    /\ startTime' = now
    /\ pc' = "rrLoop"
    /\ UNCHANGED <<codecVars, appVars, variant, logCallback, readerGen, dev, exch, now, deadline, outcome,
                   stage, initialResponse, pendingRead,
                   inbuf, reads, awaiting, got, flushed, rxlog, lost>>

\* readResponse returns r after the steps of trace: transceiveSerial drops an
\* ACK prefix that is followed by something, and returns
readResponseReturns(trace, r) ==
    LET result == IF Len(r) > 1 /\ at(r, 0) = 1 THEN subarray(r, 1, Len(r)) ELSE r
    IN  /\ outcome' = Returned(result)
        /\ events' = Append(Append(trace, Event("readEnd", r)), Event("return", result))
        /\ pc' = "returned"

\* readResponse: one turn of the while loop, up to the Promise.race of the
\* read against min(500, remaining) ms
RrIter ==
    /\ pc = "rrLoop"
    /\ IF now - startTime < DefaultTimeout
       THEN /\ IssueRead("rr")
            /\ deadline' = now + Min(500, DefaultTimeout - (now - startTime))
            /\ pc' = "rrRace"
            /\ UNCHANGED <<outcome, events>>
       ELSE /\ readResponseReturns(events, combineChunks(chunks))
            /\ UNCHANGED <<deadline, inbuf, reads, awaiting, got>>
    /\ UNCHANGED <<codecVars, appVars, auxVars, variant, logCallback, readerGen, dev, exch, now, startTime, chunks,
                   devq, held, nextId, flushed, rxlog, lost>>

\* the read won: return on a complete frame or on anything behind an ACK byte
RrReadWins ==
    /\ pc = "rrRace"
    /\ got # <<>>
    /\ chunks' = Append(chunks, got[1])
    /\ rxlog' = Append(rxlog, got[1])
    /\ got' = <<>>
    /\ LET combined == combineChunks(chunks') IN
       IF isCompleteFrame(combined) \/ (Len(combined) > 1 /\ at(combined, 0) = 1)
       THEN readResponseReturns(events, combined)
       ELSE /\ pc' = "rrLoop"
            /\ UNCHANGED <<outcome, events>>
    /\ UNCHANGED <<codecVars, appVars, auxVars, variant, logCallback, readerGen, dev, exch, now, startTime, deadline,
                   devq, held, inbuf, reads, awaiting, nextId, flushed, lost>>

\* what reader.cancel() throws away: the chunk of a read resolved in the same
\* turn as the timer, and the chunks queued in the stream
cancelled ==
    (IF got = <<>> THEN <<>> ELSE <<[chunk |-> got[1], read |-> [phase |-> "rr", ex |-> exch]]>>)
    \o [i \in 1..Len(inbuf) |-> [chunk |-> inbuf[i], read |-> [phase |-> "cancel", ex |-> exch]]]

\* the variant of RrTimeout that leaves the loop without resetting the reader
RrTimeoutKeepsReader ==
    /\ pc = "rrRace"
    /\ now >= deadline
    /\ dropResolved("rr")
    /\ awaiting' = FALSE
    /\ readResponseReturns(Append(events, Event("timeout", <<readerGen>>)), combineChunks(chunks))
    /\ UNCHANGED <<codecVars, appVars, auxVars, variant, logCallback, readerGen, dev, exch, now, startTime,
                   deadline, chunks, devq, held, inbuf, reads, nextId, flushed, rxlog>>

\* the timer won: device.reader.cancel() ends every read pending on the
\* reader and empties the stream, releaseLock() gives the reader up, and
\* port.readable.getReader() makes the reader of a new stream; then break
RrTimeout ==
    /\ pc = "rrRace"
    /\ now >= deadline
    /\ lost' = lost \o cancelled
    /\ got' = <<>>
    /\ awaiting' = FALSE
    /\ reads' = <<>>
    /\ inbuf' = <<>>
    /\ readerGen' = readerGen + 1
    /\ readResponseReturns(Append(events, Event("timeout", <<readerGen>>)), combineChunks(chunks))
    /\ UNCHANGED <<codecVars, appVars, auxVars, variant, logCallback, dev, exch, now, startTime,
                   deadline, chunks, devq, held, nextId, flushed, rxlog>>

ProgramP2 ==
    \/ WriteCommandP2
    \/ RrIter
    \/ RrReadWins
    \/ RrTimeout

NextP2 ==
    \/ StartExchange
    \/ Flush
    \/ ProgramP2
    \/ Deliver
    \/ Tick

InitP2 == InitCodecVars /\ InitAppVars /\ InitXcvVars({"p2"})

SpecP2 == InitP2 /\ [][NextP2]_vars

----------------------------------------------------------------------------
(* transceiveSerial of part_003: device.pendingRead, DLE and ACK prefixes *)

\* number of leading DLE bytes (0x10)
RECURSIVE leadingDle(_)
leadingDle(data) ==
    IF data # <<>> /\ data[1] = 16 THEN 1 + leadingDle(Tail(data)) ELSE 0

RECURSIVE isCompleteFrameP3(_)
isCompleteFrameP3(data) ==
    IF Len(data) < 4 THEN FALSE
    ELSE IF leadingDle(data) > 0
    THEN isCompleteFrameP3(subarray(data, leadingDle(data), Len(data)))
    ELSE LET len == at(data, 0) IN
         IF Len(data) = 1 /\ at(data, 0) = 1 THEN TRUE
         ELSE IF at(data, 0) = 1 /\ Len(data) > 1
         THEN isCompleteFrameP3(subarray(data, 1, Len(data)))
         ELSE \/ (len = 4 /\ Len(data) >= 8)
              \/ (len = 11 /\ Len(data) >= 15)
              \/ Len(data) >= len + 4

\* the stored readPromise is still pending on the reader; a read is known by
\* the exchange that issued it, which stores at most one
stillPending(ex) == \E i \in 1..Len(reads) : reads[i].ex = ex

\* the start of transceiveSerial: with a pendingRead stored, race it against
\* 50 ms; a promise that has already resolved wins the race at once
Reconcile ==
    /\ pc = "reconcile"
    /\ IF pendingRead = 0
       THEN /\ pc' = "writeP3"
            /\ UNCHANGED <<pendingRead, awaiting, deadline>>
       ELSE IF ~stillPending(pendingRead)
       THEN /\ pendingRead' = 0
            /\ pc' = "writeP3"
            /\ UNCHANGED <<awaiting, deadline>>
       ELSE /\ awaiting' = TRUE
            /\ deadline' = now + 50
            /\ pc' = "reconcileRace"
            /\ UNCHANGED pendingRead
    /\ UNCHANGED <<codecVars, appVars, variant, logCallback, readerGen, dev, exch, now, startTime, chunks, outcome,
                   stage, initialResponse, script,
                   devq, held, inbuf, reads, got, nextId, ghostVars>>

\* the pending read resolved within the 50 ms: its stale bytes are logged
ReconcileReadWins ==
    /\ pc = "reconcileRace"
    /\ got # <<>>
    /\ flushed' = Append(flushed, got[1])
    /\ got' = <<>>
    /\ pendingRead' = 0
    /\ pc' = "writeP3"
    /\ UNCHANGED <<codecVars, appVars, variant, logCallback, readerGen, dev, exch, now, startTime, deadline, chunks, outcome,
                   stage, initialResponse, script,
                   devq, held, inbuf, reads, awaiting, nextId, rxlog, lost, events>>

\* the 50 ms passed: device.pendingRead is cleared, the read() stays pending
ReconcileTimeout ==
    /\ pc = "reconcileRace"
    /\ now >= deadline
    /\ dropResolved("rw")
    /\ awaiting' = FALSE
    /\ pendingRead' = 0
    /\ pc' = "writeP3"
    /\ UNCHANGED <<codecVars, appVars, variant, logCallback, readerGen, dev, exch, now, startTime, deadline, chunks, outcome,
                   stage, initialResponse, script,
                   devq, held, inbuf, reads, nextId, flushed, rxlog, events>>

\* log(): the installed callback is called with no try around it, so what it
\* throws is thrown by log's caller
logThrows == logCallback = "throws"

\* log('TX', ...), device.writer.write(command), then readWithTimeout starts;
\* a callback that throws ends transceiveSerial in log('TX', ...), before the
\* write (the log of stale bytes before it is inside a try)
WriteCommandP3 ==
    /\ pc = "writeP3"
    /\ IF logThrows
       THEN /\ outcome' = Threw("log callback")
            /\ pc' = "returned"
            /\ UNCHANGED <<events, script, devq, held, nextId, chunks, startTime>>
       ELSE /\ sendSerialData(Command, events)
            /\ chunks' = <<>>
            /\ startTime' = now
            /\ pc' = "rwLoop"
            /\ UNCHANGED outcome
    /\ UNCHANGED <<codecVars, appVars, variant, logCallback, readerGen, dev, exch, now, deadline,
                   stage, initialResponse, pendingRead,
                   inbuf, reads, awaiting, got, flushed, rxlog, lost>>

\* response.slice(1) while response[0] === 0x10
stripDle(response) == subarray(response, leadingDle(response), Len(response))

\* readWithTimeout returns r: transceiveSerial strips the DLE bytes and an
\* ACK prefix that is followed by something, and returns
readWithTimeoutReturns(r) ==
    LET response == stripDle(r)
        result == IF Len(response) > 1 /\ at(response, 0) = 1
                  THEN subarray(response, 1, Len(response))
                  ELSE response
    IN  /\ outcome' = Returned(result)
        /\ events' = Append(Append(events, Event("readEnd", r)), Event("return", result))
        /\ pc' = "returned"

\* readWithTimeout: one turn of the while loop, up to the Promise.race of the
\* read against the whole remaining time
RwIter ==
    /\ pc = "rwLoop"
    /\ IF now - startTime < DefaultTimeout
       THEN /\ IssueRead("rw")
            /\ deadline' = now + (DefaultTimeout - (now - startTime))
            /\ pc' = "rwRace"
            /\ UNCHANGED <<outcome, events>>
       ELSE /\ readWithTimeoutReturns(combineChunks(chunks))
            /\ UNCHANGED <<deadline, inbuf, reads, awaiting, got>>
    /\ UNCHANGED <<codecVars, appVars, auxVars, variant, logCallback, readerGen, dev, exch, now, startTime, chunks,
                   devq, held, nextId, flushed, rxlog, lost>>

RwReadWins ==
    /\ pc = "rwRace"
    /\ got # <<>>
    /\ chunks' = Append(chunks, got[1])
    /\ rxlog' = Append(rxlog, got[1])
    /\ got' = <<>>
    /\ IF isCompleteFrameP3(combineChunks(chunks'))
       THEN readWithTimeoutReturns(combineChunks(chunks'))
       ELSE /\ pc' = "rwLoop"
            /\ UNCHANGED <<outcome, events>>
    /\ UNCHANGED <<codecVars, appVars, auxVars, variant, logCallback, readerGen, dev, exch, now, startTime, deadline,
                   devq, held, inbuf, reads, awaiting, nextId, flushed, lost>>

\* the timeout won: the readPromise is stored in device.pendingRead and the
\* loop is left
RwTimeout ==
    /\ pc = "rwRace"
    /\ now >= deadline
    /\ dropResolved("rw")
    /\ awaiting' = FALSE
    /\ pendingRead' = exch
    /\ readWithTimeoutReturns(combineChunks(chunks))
    /\ UNCHANGED <<codecVars, appVars, variant, logCallback, readerGen, dev, exch, now, startTime, deadline, chunks,
                   stage, initialResponse, script,
                   devq, held, inbuf, reads, nextId, flushed, rxlog>>

ProgramP3 ==
    \/ Reconcile
    \/ ReconcileReadWins
    \/ ReconcileTimeout
    \/ WriteCommandP3
    \/ RwIter
    \/ RwReadWins
    \/ RwTimeout

NextP3 ==
    \/ StartExchange
    \/ ProgramP3
    \/ Deliver
    \/ Tick

InitP3 == InitCodecVars /\ InitAppVars /\ InitXcvVars({"p3"})

SpecP3 == InitP3 /\ [][NextP3]_vars

\* part_003 with each kind of log callback installed before the first exchange
InitLog == InitCodecVars /\ InitAppVars /\ InitXcvWith({"p3"}, {"none", "returns", "throws"})

SpecLog == InitLog /\ [][NextP3]_vars

\* the three variants that know the ACK byte, side by side
NextVariants ==
    \/ StartExchange
    \/ Flush
    \/ ProgramNC
    \/ ProgramP1
    \/ ProgramP3
    \/ Deliver
    \/ Tick

InitVariants == InitCodecVars /\ InitAppVars /\ InitXcvVars({"nc", "p1", "p3"})

SpecVariants == InitVariants /\ [][NextVariants]_vars

InitApp == InitCodecVars /\ InitAppVars /\ InitXcvVars({"ws"}) /\ dev.reader /\ dev.writer

SpecApp == InitApp /\ [][NextApp]_vars

InitCodec == InitCodecVars /\ InitAppVars /\ InitXcvVars({"ws"}) /\ dev.reader /\ dev.writer

SpecCodec == InitCodec /\ [][NextCodec]_vars

----------------------------------------------------------------------------
(* Single calls of the exported functions: one call per behaviour, the
   arguments in fin and the returned value in fout *)

MaxBufLen == 16

\* the i-th argument of the call
arg(i) == fin[i + 1]

fill(k, b) == [i \in 1..k |-> b]

\* receive buffers: a first byte followed by filler, and the prefixes of the two
\* documented responses
FirstBytes == {0, 1, 4, 11, 16}
FillBytes == {0, 1, 16, 255}
FrameBuffers ==
    {<<first>> \o fill(k, f) : first \in FirstBytes, k \in 0..(MaxBufLen - 1), f \in FillBytes}
        \cup {subarray(CardFoundFixture, 0, k) : k \in 1..Len(CardFoundFixture)}
        \cup {subarray(NoCardFixture, 0, k) : k \in 1..Len(NoCardFixture)}

IsCompleteFrameStep ==
    /\ fop = "none"
    /\ \E data \in FrameBuffers :
        /\ fop' = "isCompleteFrame"
        /\ fin' = <<fop', data>>
        /\ fout' = <<isCompleteFrame(data)>>
    /\ UNCHANGED <<pipeVars, xcvVars, appVars, pollVars>>

\* isCompleteFrame of web-serial.ts with its two known-size tests taken out:
\* the length test and the generic rule alone
isCompleteFrameGenericOnly(data) ==
    IF Len(data) < 4 THEN FALSE
    ELSE Len(data) >= at(data, 0) + 4

\* the function and its generic rule on the same buffer
IsCompleteFrameTiersStep ==
    /\ fop = "none"
    /\ \E data \in FrameBuffers :
        /\ fop' = "isCompleteFrameTiers"
        /\ fin' = <<fop', data>>
        /\ fout' = <<isCompleteFrame(data), isCompleteFrameGenericOnly(data)>>
    /\ UNCHANGED <<pipeVars, xcvVars, appVars, pollVars>>

MaxGrowLen == 6

\* growing receive buffers: every buffer of up to MaxGrowLen bytes made of a
\* length byte 0, the ACK byte and the DLE byte, and the frame buffers; each
\* grows by one more chunk
PrefixBytes == {0, 1, 16}
GrowBuffers == UNION {[1..k -> PrefixBytes] : k \in 0..MaxGrowLen} \cup FrameBuffers
GrowChunks == {<<0>>, <<1>>, <<16>>, <<4, 255>>}

\* the two isCompleteFrame on a buffer and on the buffer with one more chunk
IsCompleteFrameGrowStep ==
    /\ fop = "none"
    /\ \E data \in GrowBuffers, more \in GrowChunks :
        /\ fop' = "isCompleteFrameGrow"
        /\ fin' = <<fop', data, more>>
        /\ fout' = <<isCompleteFrame(data), isCompleteFrame(data \o more),
                     isCompleteFrameP3(data), isCompleteFrameP3(data \o more)>>
    /\ UNCHANGED <<pipeVars, xcvVars, appVars, pollVars>>

\* the calls of disconnectSerialPort's try block on a device, in order
disconnectCalls(d) ==
    (IF d.reader THEN <<"reader.cancel", "reader.releaseLock">> ELSE <<>>)
        \o (IF d.writer THEN <<"writer.close", "writer.releaseLock">> ELSE <<>>)
        \o <<"port.close">>

\* the try block run over calls, those of failing throwing or rejecting: the
\* first failure ends the block
RECURSIVE tryBlock(_, _, _)
tryBlock(calls, failing, done) ==
    IF calls = <<>> THEN [called |-> done, completed |-> done, caught |-> FALSE]
    ELSE IF Head(calls) \in failing
    THEN [called |-> Append(done, Head(calls)), completed |-> done, caught |-> TRUE]
    ELSE tryBlock(Tail(calls), failing, Append(done, Head(calls)))

\* disconnectSerialPort of web-serial.ts: the catch logs to the console and the
\* promise is fulfilled
disconnectSerialPort(d, failing) ==
    LET block == tryBlock(disconnectCalls(d), failing, <<>>)
    IN  [state |-> "fulfilled", called |-> block.called, completed |-> block.completed,
         caught |-> block.caught]

\* operations of the port that can fail when the device is unplugged or busy
Failures == SUBSET {"reader.cancel", "writer.close", "port.close"}

DisconnectSerialPortStep ==
    /\ fop = "none"
    /\ \E d \in DevChoices, failing \in Failures :
        /\ fop' = "disconnectSerialPort"
        /\ fin' = <<fop', d, failing>>
        /\ fout' = <<disconnectSerialPort(d, failing)>>
    /\ UNCHANGED <<pipeVars, xcvVars, appVars, pollVars>>

IsCompleteFrameP3Step ==
    /\ fop = "none"
    /\ \E data \in FrameBuffers :
        /\ fop' = "isCompleteFrameP3"
        /\ fin' = <<fop', data>>
        /\ fout' = <<isCompleteFrameP3(data)>>
    /\ UNCHANGED <<pipeVars, xcvVars, appVars, pollVars>>

\* the command of the comment above buildHuntCommand, without and with its CRC
DocumentedHuntBody == <<128, 10, 1, 3, 0, 0, 2, 17, 3, 1, 1, 20, 0>>
DocumentedHuntCommand == DocumentedHuntBody \o <<156, 248>>

CrcInputs ==
    {<<>>, DocumentedHuntBody, CardFoundBody, NoCardBody}
        \cup {subarray(Command, 0, Len(Command) - 2)}
        \cup UNION {[1..n -> ByteSample] : n \in 1..MaxPayloadLen}

CrcStep ==
    /\ fop = "none"
    /\ \E data \in CrcInputs :
        /\ fop' = "crc16Ccitt"
        /\ fin' = <<fop', data>>
        /\ fout' = <<crc16Ccitt(data)>>
    /\ UNCHANGED <<pipeVars, xcvVars, appVars, pollVars>>

\* the shortest payload whose length byte 2 + data.length no longer fits a byte
WrapLen == 254

CommandPayloads ==
    UNION {[1..n -> ByteSample] : n \in 0..MaxPayloadLen}
        \cup {fill(WrapLen - 1, 170), fill(WrapLen, 170)}

BuildCommandStep ==
    /\ fop = "none"
    /\ \E cmd \in {0, CMD_EXECUTE}, classId \in {CLASS_SYSTEM, 2},
          ident \in {SYS_ENTER_HUNT_PHASE, 255}, data \in CommandPayloads :
        /\ fop' = "buildCommand"
        /\ fin' = <<fop', cmd, classId, ident, data>>
        /\ fout' = <<buildCommand(cmd, classId, ident, data)>>
    /\ UNCHANGED <<pipeVars, xcvVars, appVars, pollVars>>

HuntOptions ==
    [isoa : BOOLEAN, isob : BOOLEAN, mifare : BOOLEAN, forget : BOOLEAN,
     timeout10ms : {0, 20}, antenna : {1, 2}]

BuildHuntCommandStep ==
    /\ fop = "none"
    /\ \E options \in HuntOptions :
        /\ fop' = "buildHuntCommand"
        /\ fin' = <<fop', options>>
        /\ fout' = <<buildHuntCommand(options)>>
    /\ UNCHANGED <<pipeVars, xcvVars, appVars, pollVars>>

\* replies to the hunt command: card-found shaped replies with several length
\* and status bytes, short error replies with several length bytes and error
\* codes, and buffers too short to parse
HuntReplies ==
    {[CardFoundFixture EXCEPT ![1] = len, ![13] = status] :
        len \in {7, 9, 11, 12}, status \in {0, 1, 255}}
        \cup {<<len, 1, 3, 0, errorCode, 0>> \o crc :
                len \in 0..4, errorCode \in {0, 5, 111, 255},
                crc \in {<<>>, <<29>>, <<29, 203>>}}
        \cup {subarray(NoCardFixture, 0, k) : k \in 0..5}

ParseHuntResponseStep ==
    /\ fop = "none"
    /\ \E response \in HuntReplies :
        /\ fop' = "parseHuntResponse"
        /\ fin' = <<fop', response>>
        /\ fout' = <<parseHuntResponse(response)>>
    /\ UNCHANGED <<pipeVars, xcvVars, appVars, pollVars>>

\* payloads of the reader's replies to an APDU: data and status word, a status
\* word alone, and payloads too short to hold a status word
CardUid == <<141, 105, 93, 241>>
ApduPayloads ==
    {<<>>, <<144>>, <<144, 0>>, <<106, 129>>, <<99, 0>>, <<105, 130>>,
     CardUid \o <<144, 0>>, CardUid \o <<106, 129>>, CardUid \o <<99, 0>>,
     CardUid \o <<144>>}

\* what transceive gives: the payload in a valid frame, the same frame with a
\* damaged checksum, the bare payload without a frame, or an exception
ApduOutcomes ==
    {Returned(buildFrame(p)) : p \in ApduPayloads}
        \cup {Returned(flipChecksumBit(buildFrame(p), 0)) : p \in ApduPayloads}
        \cup {Returned(p) : p \in ApduPayloads}
        \cup {Threw("Device not connected")}

BlockNumber == 4
Keys == {fill(6, 255), fill(5, 255), fill(7, 255), <<>>}

GetCardUidStep ==
    /\ fop = "none"
    /\ \E xfer \in ApduOutcomes :
        /\ fop' = "getCardUid"
        /\ fin' = <<fop', xfer>>
        /\ fout' = <<getCardUid(xfer)>>
    /\ UNCHANGED <<pipeVars, xcvVars, appVars, pollVars>>

ReadBlockStep ==
    /\ fop = "none"
    /\ \E xfer \in ApduOutcomes :
        /\ fop' = "readBlock"
        /\ fin' = <<fop', xfer, BlockNumber>>
        /\ fout' = <<readBlock(xfer, BlockNumber)>>
    /\ UNCHANGED <<pipeVars, xcvVars, appVars, pollVars>>

AuthenticateStep ==
    /\ fop = "none"
    /\ \E xfer \in ApduOutcomes, keyType \in {"A", "B"} :
        /\ fop' = "authenticate"
        /\ fin' = <<fop', xfer, BlockNumber, keyType>>
        /\ fout' = <<authenticate(xfer, BlockNumber, keyType)>>
    /\ UNCHANGED <<pipeVars, xcvVars, appVars, pollVars>>

LoadKeyStep ==
    /\ fop = "none"
    /\ \E xfer \in ApduOutcomes, keyNumber \in {0, 1}, key \in Keys :
        /\ fop' = "loadKey"
        /\ fin' = <<fop', xfer, keyNumber, key>>
        /\ fout' = <<loadKey(xfer, keyNumber, key), loadKeyCommands(keyNumber, key)>>
    /\ UNCHANGED <<pipeVars, xcvVars, appVars, pollVars>>

MaxHexLen == 4

\* what the user typed: hex digits, a letter that is no hex digit, and blanks
HexChars == {"1", "A", "g", " "}
HexStrings == UNION {[1..n -> HexChars] : n \in 0..MaxHexLen}

SendCustomCommandStep ==
    /\ fop = "none"
    /\ \E hexCommand \in HexStrings, connected \in BOOLEAN, reply \in {<<>>, NoCardFixture} :
        /\ fop' = "sendCustomCommand"
        /\ fin' = <<fop', hexCommand, connected, reply>>
        /\ fout' = <<sendCustomCommand(hexCommand, connected, reply)>>
    /\ UNCHANGED <<pipeVars, xcvVars, appVars, pollVars>>

\* what transceiveSerial gives: reader or writer unavailable, a write error, a
\* timeout without any byte, a partial reply, a whole reply
SerialOutcomes ==
    {Threw("Serial port not ready"), Threw("The device has been lost."),
     Returned(<<>>), Returned(subarray(CardFoundFixture, 0, 5)),
     Returned(NoCardFixture), Returned(CardFoundFixture)}

SendCommandStep ==
    /\ fop = "none"
    /\ \E connected \in BOOLEAN, serialOutcome \in SerialOutcomes :
        /\ fop' = "sendCommand"
        /\ fin' = <<fop', transceive(connected, serialOutcome)>>
        /\ fout' = <<sendCommandPromise(transceive(connected, serialOutcome))>>
    /\ UNCHANGED <<pipeVars, xcvVars, appVars, pollVars>>

\* the text of the comment in parseVersionResponse, up to the build time
VersionText == <<71, 69, 78, 53, 88, 88, 32, 67, 83, 67, 32, 48, 49, 46, 50, 48, 60, 85, 83, 66, 62, 32, 74, 117, 108, 32, 51, 49, 32, 50, 48, 49, 52, 32, 49, 54, 58, 49, 54, 58, 50, 49>>

\* replies to the get-version command: the version text, a text between NUL
\* bytes and blanks, the replies of the hunt command, and short buffers
VersionReplies ==
    {withCrc(<<Len(VersionText) + 2, 1, 1>> \o VersionText),
     withCrc(<<8, 1, 1, 0, 32, 65, 66, 32, 0>>),
     CardFoundFixture, NoCardFixture,
     subarray(NoCardFixture, 0, 5), <<1>>, <<>>}

GetFirmwareVersionStep ==
    /\ fop = "none"
    /\ \E xfer \in {Returned(r) : r \in VersionReplies} \cup {Threw("Serial port not ready")} :
        /\ fop' = "getFirmwareVersion"
        /\ fin' = <<fop', xfer>>
        /\ fout' = <<getFirmwareVersion(xfer)>>
    /\ UNCHANGED <<pipeVars, xcvVars, appVars, pollVars>>

NextFn ==
    \/ IsCompleteFrameStep
    \/ IsCompleteFrameP3Step
    \/ IsCompleteFrameTiersStep
    \/ DisconnectSerialPortStep
    \/ IsCompleteFrameGrowStep
    \/ CrcStep
    \/ BuildCommandStep
    \/ BuildHuntCommandStep
    \/ ParseHuntResponseStep
    \/ GetCardUidStep
    \/ ReadBlockStep
    \/ AuthenticateStep
    \/ LoadKeyStep
    \/ SendCustomCommandStep
    \/ SendCommandStep
    \/ GetFirmwareVersionStep

InitFn == InitCodecVars /\ InitAppVars /\ InitXcvVars({"ws"}) /\ dev.reader /\ dev.writer

SpecFn == InitFn /\ [][NextFn]_vars

----------------------------------------------------------------------------
(* nfc-commands.ts, startPolling: the poll loop, its callback and its stop
   function *)

MaxPolls == 4

OtherUid == <<4, 163, 27, 1>>

\* what transceive gives to the getCardUid of one poll: one of two cards, a
\* status word without a UID, no card, no reply, or an exception
PollOutcomes ==
    {Returned(buildFrame(CardUid \o <<144, 0>>)),
     Returned(buildFrame(OtherUid \o <<144, 0>>)),
     Returned(buildFrame(<<144, 0>>)),
     Returned(buildFrame(<<106, 129>>)),
     Returned(<<>>),
     Threw("Device not connected")}

\* a JavaScript string is truthy unless it is undefined or empty
truthy(str) == str # Undef /\ str # ""

\* startPolling: running = true, lastUid = '', and poll() runs up to its first
\* await, inside the first getCardUid
StartPolling ==
    /\ ppc = "idle"
    /\ ppc' = "exchange"
    /\ running' = TRUE
    /\ lastUid' = ""
    /\ UNCHANGED <<polls, detected, stopped, pipeVars, fnVars, xcvVars, appVars>>

PollGetUidDoneLevelTriggered ==
    /\ ppc = "exchange"
    /\ \E xfer \in PollOutcomes :
        LET result == getCardUid(xfer) IN
        /\ polls' = Append(polls, result)
        /\ IF result.success /\ truthy(result.hexData)
           THEN /\ lastUid' = result.hexData
                /\ detected' = Append(detected, [poll |-> Len(polls) + 1,
                                                 uid |-> result.hexData])
           ELSE /\ lastUid' = ""
                /\ UNCHANGED detected
    /\ ppc' = "sleep"
    /\ UNCHANGED <<running, stopped, pipeVars, fnVars, xcvVars, appVars>>

\* the awaited getCardUid settles; the loop body runs up to the await of the
\* interval timer
PollGetUidDone ==
    /\ ppc = "exchange"
    /\ \E xfer \in PollOutcomes :
        LET result == getCardUid(xfer) IN
        /\ polls' = Append(polls, result)
        /\ IF result.success /\ truthy(result.hexData)
           THEN IF result.hexData # lastUid
                THEN /\ lastUid' = result.hexData
                     /\ detected' = Append(detected, [poll |-> Len(polls) + 1,
                                                      uid |-> result.hexData])
                ELSE UNCHANGED <<lastUid, detected>>
           ELSE /\ lastUid' = ""
                /\ UNCHANGED detected
    /\ ppc' = "sleep"
    /\ UNCHANGED <<running, stopped, pipeVars, fnVars, xcvVars, appVars>>

PollIntervalDoneIgnoresStop ==
    /\ ppc = "sleep"
    /\ Len(polls) < MaxPolls
    /\ ppc' = "exchange"
    /\ UNCHANGED <<running, lastUid, polls, detected, stopped,
                   pipeVars, fnVars, xcvVars, appVars>>

\* the interval timer fires; while (running) either begins the next getCardUid
\* or ends the loop
PollIntervalDone ==
    /\ ppc = "sleep"
    /\ running => Len(polls) < MaxPolls
    /\ ppc' = IF running THEN "exchange" ELSE "done"
    /\ UNCHANGED <<running, lastUid, polls, detected, stopped,
                   pipeVars, fnVars, xcvVars, appVars>>

\* the function startPolling returned: running = false
StopPolling ==
    /\ ppc \in {"exchange", "sleep"}
    /\ ~stopped
    /\ running' = FALSE
    /\ stopped' = TRUE
    /\ UNCHANGED <<ppc, lastUid, polls, detected, pipeVars, fnVars, xcvVars, appVars>>

NextPoll ==
    \/ StartPolling
    \/ PollGetUidDone
    \/ PollIntervalDone
    \/ StopPolling

InitPoll == InitCodecVars /\ InitAppVars /\ InitXcvVars({"ws"}) /\ dev.reader /\ dev.writer

SpecPoll == InitPoll /\ [][NextPoll]_vars

\* the awaited promises settle: the exchange ends (with a reply, a timeout or an
\* exception) and the interval timer fires
SpecPollFair == SpecPoll /\ WF_vars(PollGetUidDone) /\ WF_vars(PollIntervalDone)

----------------------------------------------------------------------------
(* Claims on the codecs *)

\* the XOR of all bytes of s
xorOfAll(s) ==
    LET x[lo \in Nat, hi \in Nat] ==
            IF lo > hi THEN 0
            ELSE IF lo = hi THEN s[lo]
            ELSE Xor(x[lo, (lo + hi) \div 2], x[((lo + hi) \div 2) + 1, hi])
    IN  x[1, Len(s)]

\* C8: cardHunt reports success only for a response whose trailing two bytes
\* are the CRC-16/CCITT of the bytes before them.
C8_SuccessOnlyWithValidCrc ==
    (cpc = "hunted" /\ huntResult.success) => crcMatches(resp.bytes)

\* C9: parseFrame(buildFrame(P)) succeeds with data P, and the frame is
\* STX, big-endian length, P, ETX, XOR of all preceding bytes.
C9_RoundTrip ==
    /\ cpc \in {"built", "parsed"} =>
          LET n == Len(payload) IN
          /\ Len(frame) = n + 5
          /\ frame[1] = 2
          /\ frame[2] * 256 + frame[3] = n
          /\ \A i \in 1..n : frame[3 + i] = payload[i]
          /\ frame[n + 4] = 3
          /\ frame[n + 5] = xorOfAll(SubSeq(frame, 1, n + 4))
    /\ cpc = "parsed" =>
          /\ parsed.success
          /\ parsed.data = payload

C9_Witness == cpc = "parsed" /\ Len(payload) > 255 /\ parsed.success

\* C10: a frame whose checksum byte has one bit flipped is rejected with
\* 'Invalid frame checksum', the result carrying the raw bytes.
C10_FlippedChecksumRejected ==
    cpc = "parsedCorrupt" =>
        /\ ~parsed.success
        /\ parsed.error = "Invalid frame checksum"
        /\ parsed.data = frame

C10_Witness ==
    /\ cpc = "parsedCorrupt"
    /\ Len(payload) = 2
    /\ frame # buildFrame(payload)
    /\ ~parsed.success

----------------------------------------------------------------------------
(* Claims on transceiveSerial of web-serial.ts *)

ids(cs) == {cs[i].id : i \in 1..Len(cs)}

\* C4: in web-serial.ts a timed-out read() is not left outstanding: at most
\* one read() is pending on the reader at any time, and none is pending when
\* transceiveSerial has returned.
C4_NoDanglingRead ==
    /\ Len(reads) <= 1
    /\ (pc = "returned" => reads = <<>>)

\* C6: in every exchange the flush has finished before the command is
\* written (while the flush runs the command is not on the wire, and once it
\* is the flush never runs again), and the returned buffer is made of chunks
\* none of which the flush consumed.
C6_FlushBeforeWriteAndDiscarded ==
    /\ (pc \in {"flushLoop", "flushRace"} =>
            \A i \in 1..Len(events) : events[i].op # "write")
    /\ (\A i \in 1..Len(events) :
            events[i].op = "write" => \E j \in 1..(i - 1) : events[j].op = "flushed")
    /\ (pc = "returned" /\ ~outcome.threw =>
            /\ outcome.bytes = concatData(chunks)
            /\ ids(chunks) \cap ids(flushed) = {})

C6_Witness ==
    /\ pc = "returned"
    /\ ~outcome.threw
    /\ flushed # <<>>
    /\ outcome.bytes # <<>>

\* the receive loop holds an incomplete frame and the stream will never
\* yield again
PartialThenSilent ==
    /\ pc \in {"recvLoop", "recvRace", "recvSleep"}
    /\ chunks # <<>>
    /\ ~isCompleteFrame(concatData(chunks))
    /\ devq = <<>>
    /\ inbuf = <<>>
    /\ got = <<>>

\* C7: when the stream has yielded bytes that do not form a complete frame
\* and never yields again, receiveSerialFrame eventually returns (it does not
\* block, it does not throw), not before the overall timeout has elapsed, and
\* what it returns is exactly the concatenation of the chunks it received.
C7_PartialReturnedAtTimeout ==
    PartialThenSilent ~>
        /\ pc = "returned"
        /\ ~outcome.threw
        /\ outcome.bytes = concatData(rxlog)
        /\ now - startTime >= DefaultTimeout

C7_Witness ==
    /\ pc = "returned"
    /\ ~outcome.threw
    /\ Len(rxlog) >= 2
    /\ ~isCompleteFrame(outcome.bytes)
    /\ outcome.bytes = concatData(rxlog)
    /\ now - startTime >= DefaultTimeout

----------------------------------------------------------------------------
(* Claims on the ACK handshake *)

indexOf(op) == {i \in 1..Len(events) : events[i].op = op}

minOf(S) == CHOOSE x \in S : \A y \in S : x <= y
maxOf(S) == CHOOSE x \in S : \A y \in S : x >= y

\* the first response read of the running exchange has ended and yielded
\* exactly the byte 0x01
FirstReadIsAck ==
    /\ indexOf("readEnd") # {}
    /\ events[minOf(indexOf("readEnd"))].bytes = <<1>>

zeroWrites == {i \in indexOf("write") : events[i].bytes = <<>>}
commandWrites == {i \in indexOf("write") : events[i].bytes # <<>>}

\* C1: in the ACK/poll variants (nfc-commands.ts, part_001), once the first
\* read of an exchange has yielded exactly 0x01, exactly one zero-length write
\* has been issued, after the command write and before the second read starts,
\* and an exchange that returns returns what its second read yielded.
C1_AckThenOnePoll ==
    (variant \in {"nc", "p1"} /\ FirstReadIsAck) =>
        /\ Cardinality(zeroWrites) = 1
        /\ Cardinality(commandWrites) = 1
        /\ \A z \in zeroWrites :
              /\ \A c \in commandWrites : c < z
              /\ minOf(indexOf("readEnd")) < z
              /\ \A r \in indexOf("readStart") :
                    r > minOf(indexOf("readEnd")) => z < r
        /\ \A ret \in indexOf("return") :
              /\ Cardinality(indexOf("readEnd")) = 2
              /\ maxOf(indexOf("readEnd")) < ret
              /\ events[ret].bytes = events[maxOf(indexOf("readEnd"))].bytes
              /\ outcome = Returned(events[ret].bytes)

C1_Witness ==
    /\ pc = "returned"
    /\ variant = "nc"
    /\ FirstReadIsAck
    /\ Cardinality(indexOf("readEnd")) = 2
    /\ outcome.bytes = NoCardFixture

\* the same case reached in part_001
C1_WitnessP1 ==
    /\ pc = "returned"
    /\ variant = "p1"
    /\ FirstReadIsAck
    /\ Cardinality(indexOf("readEnd")) = 2

\* C2: each implementation serves both reader behaviours: whether the reader
\* answers a lone 0x01 and the payload after an empty poll, or 0x01 prefixed
\* to the payload in one reply (either of them behind a DLE byte or not), once
\* the reader has sent all it is willing to send the exchange returns the
\* payload frame without the 0x01.
C2_BothReaderBehaviours ==
    (/\ pc = "returned"
     /\ ~outcome.threw
     /\ script \in AckScripts
     /\ devq = <<>>
     /\ inbuf = <<>>)
        => outcome.bytes = NoCardFixture

\* C5: in part_003 a read left pending by exchange N is reconciled at the
\* start of exchange N+1: once the exchange has written its command no read()
\* issued by an earlier exchange is outstanding, and no chunk of a reply is
\* delivered to a read of an earlier exchange.
C5_PendingReadReconciled ==
    variant = "p3" =>
        /\ (pc \in {"rwLoop", "rwRace"} =>
               \A i \in 1..Len(reads) : reads[i].ex = exch)
        /\ \A i \in 1..Len(lost) : lost[i].chunk.ex <= lost[i].read.ex

----------------------------------------------------------------------------
(* Claims on the App *)

\* C3: at every moment at most one transceive exchange is in flight against
\* the connected device, whatever the interleaving of Get UID, custom command
\* and toggling polling off and on with a running polling loop.
C3_SingleFlight == inFlight <= 1

\* the command has been written in the running exchange
commandWritten == \E i \in 1..Len(events) : events[i].op = "write" /\ events[i].bytes = Command

\* C27: the log callback is purely observational: transceiveSerial of part_003
\* performs the same writes and returns the same result whichever callback is
\* installed (none, one that returns, one that throws). With no callback a
\* call on a ready device always writes the command and returns bytes, so the
\* same must hold with every callback.
C27_LogCallbackObservational ==
    (variant = "p3" /\ pc = "returned" /\ exch > 0 /\ dev.reader /\ dev.writer) =>
        (commandWritten /\ ~outcome.threw)

\* the same property for the runs with no callback or one that returns
C27_QuietCallbackObservational ==
    (variant = "p3" /\ pc = "returned" /\ exch > 0 /\ dev.reader /\ dev.writer
        /\ logCallback \in {"none", "returns"}) =>
        (commandWritten /\ ~outcome.threw)

\* the steps of the running exchange at which a read of readResponse timed out
timeouts == {i \in 1..Len(events) : events[i].op = "timeout"}

withoutAck(r) == IF r # <<>> /\ at(r, 0) = 1 THEN subarray(r, 1, Len(r)) ELSE r

\* the bytes readResponse returned in the running exchange
readResponseResult ==
    LET i == CHOOSE j \in 1..Len(events) : events[j].op = "readEnd" IN events[i].bytes

\* C30: readResponse of part_002 returns before the overall timeout, no read
\* having timed out, only when the accumulated bytes, a leading ACK byte
\* removed, are a complete frame for isCompleteFrame: a partial frame is never
\* returned early while its chunks are still arriving.
C30_EarlyReturnOnlyOnCompleteFrame ==
    (variant = "p2" /\ pc = "returned" /\ ~outcome.threw /\ exch > 0
        /\ timeouts = {} /\ now - startTime < DefaultTimeout) =>
        isCompleteFrame(withoutAck(readResponseResult))

\* C31: in the simpleRead variant (nfc-commands.ts) every read is bounded by
\* its 500 ms sub-timeout, so transceiveSerial eventually returns, also when
\* the reader never sends a byte or stops after a partial frame.
C31_SimpleReadReturns ==
    (variant = "nc" /\ pc = "settle") ~> (pc = "returned")

\* the chunks the reader sent in answer to the running exchange's command that
\* resolved a read() whose result nobody looks at
lostReplies == SelectSeq(lost, LAMBDA l : l.chunk.ex = exch)

\* C33: in transceiveSerial of web-serial.ts no reply byte is lost: every chunk
\* the stream delivers between the command write and the return is in the
\* returned buffer, in arrival order; none resolves a read whose result is
\* never observed, the read left by the preceding flush included.
C33_NoReplyByteLost ==
    (variant = "ws" /\ pc = "returned" /\ ~outcome.threw /\ exch > 0) =>
        /\ lostReplies = <<>>
        /\ outcome.bytes = concatData(rxlog)

\* C34: in the App at most one polling loop is running at any time: stopping
\* polling and starting it again, the old loop's 500 ms delay included, never
\* leaves two loops issuing Get-UID exchanges on the same device.
C34_OnePollingLoop == Len(loops) <= 1

\* a pollLoop is inside getCardUid: its exchange is in flight
pollExchangeInFlight == \E i \in 1..Len(loops) : loops[i] = "getCardUid"

\* C35: handleDisconnect never cancels the reader or closes the port while an
\* exchange started by the polling loop is in flight: while
\* disconnectSerialPort runs, and once the device is gone, no exchange of a
\* polling loop is in flight.
C35_NoTeardownUnderExchange ==
    (disconnects > 0 \/ ~device) => ~pollExchangeInFlight

\* the reader answered the running exchange with one complete frame in one
\* chunk, with no 0x10 or 0x01 byte put in front of it
unprefixedFrames == {NoCardFixture, LongReplyFrame}

\* C36: in part_003 prefix stripping removes only bytes the reader put in front
\* of the frame: when the reply is a complete frame F sent without a 0x10 or
\* 0x01 prefix, whatever the length byte of F, and the exchange received it,
\* transceiveSerial returns exactly F.
C36_UnprefixedFrameReturnedWhole ==
    (/\ variant = "p3"
     /\ pc = "returned"
     /\ ~outcome.threw
     /\ exch > 0
     /\ Len(script.first) = 1
     /\ script.first[1] \in unprefixedFrames
     /\ concatData(rxlog) = script.first[1]) =>
        outcome.bytes = script.first[1]

\* the no-card frame, length byte 0x04, is returned whole
C36_ShortFrameReturnedWhole ==
    (/\ variant = "p3"
     /\ pc = "returned"
     /\ ~outcome.threw
     /\ exch > 0
     /\ script.first = <<NoCardFixture>>
     /\ concatData(rxlog) = NoCardFixture) =>
        outcome.bytes = NoCardFixture

\* part_001 kept a partial first response and receiveSerialFrame reads on
splitReply == variant = "p1" /\ stage = 1 /\ initialResponse # <<>>

\* C38: in part_001, when a reply arrives split between the initial read and
\* later reads, completeness is judged on the concatenation: transceiveSerial
\* returns initial+remaining, returns before the timeout only if that
\* concatenation is a complete frame, and does not keep waiting once it is.
C38_CompletenessOfConcatenation ==
    /\ (splitReply /\ pc = "returned" /\ ~outcome.threw) =>
          /\ outcome.bytes = initialResponse \o concatData(chunks)
          /\ (now - startTime < DefaultTimeout => isCompleteFrame(outcome.bytes))
    /\ (splitReply /\ pc \in {"recvLoop1", "recvSleep1"} /\ chunks # <<>>) =>
          ~isCompleteFrame(initialResponse \o concatData(chunks))

----------------------------------------------------------------------------
(* Claims on single function calls *)

\* C11: isCompleteFrame of web-serial.ts, on a buffer whose first byte is 0x04,
\* returns true at a total length of 8 bytes and false at every shorter length;
\* on a buffer whose first byte is 0x0b it returns true at 15 bytes and false
\* at every shorter length.
C11_KnownFrameSizes ==
    (fop = "isCompleteFrame" /\ arg(1)[1] \in {4, 11}) =>
        LET total == IF arg(1)[1] = 4 THEN 8 ELSE 15 IN
        /\ (Len(arg(1)) = total => fout[1] = TRUE)
        /\ (Len(arg(1)) < total => fout[1] = FALSE)

C11_Witness ==
    /\ fop = "isCompleteFrame"
    /\ arg(1)[1] = 11
    /\ Len(arg(1)) = 15
    /\ fout[1] = TRUE

\* C12: isCompleteFrame of the DLE-aware variant returns true for the one-byte
\* buffer [0x01]: the ACK sentinel alone is a complete unit.
C12_AckAloneIsComplete ==
    (fop = "isCompleteFrameP3" /\ arg(1) = <<1>>) => fout[1] = TRUE

\* C13: crc16Ccitt of the 13 bytes 80 0A 01 03 00 00 02 11 03 01 01 14 00 is
\* 0xF89C, low byte 0x9C and high byte 0xF8.
C13_CrcFixture ==
    (fop = "crc16Ccitt" /\ arg(1) = DocumentedHuntBody) =>
        /\ fout[1] = 63644
        /\ And(fout[1], 255) = 156
        /\ And(fout[1] \div 256, 255) = 248

\* C14: for every cmd, class, ident and payload, buildCommand returns
\* payload.length + 6 bytes: cmd, a length byte equal to 2 + payload.length,
\* class, ident, the payload, then the CRC-16 of those preceding bytes with the
\* low byte first and the high byte second.
C14_CommandLayout ==
    fop = "buildCommand" =>
        LET data == arg(4)
            n == Len(data)
            result == fout[1]
            body == subarray(result, 0, n + 4)
        IN  /\ Len(result) = n + 6
            /\ result[1] = arg(1)
            /\ result[2] = 2 + n
            /\ result[3] = arg(2)
            /\ result[4] = arg(3)
            /\ subarray(result, 4, n + 4) = data
            /\ result[n + 5] = crc16Ccitt(body) % 256
            /\ result[n + 6] = crc16Ccitt(body) \div 256

\* C15: buildHuntCommand() with its default options returns exactly
\* 80 0A 01 03 00 00 02 11 03 01 01 14 00 9C F8.
C15_DefaultHuntCommand ==
    (fop = "buildHuntCommand" /\ arg(1) = DefaultHuntOptions) =>
        fout[1] = DocumentedHuntCommand

\* C16: parseHuntResponse of 0b 01 03 00 05 06 00 08 8d 69 5d f1 00 e2 4e
\* returns success with UID 8D 69 5D F1, ATQA 05 06 and SAK 00.
C16_CardFoundFixtureDecoded ==
    (fop = "parseHuntResponse" /\ arg(1) = CardFoundFixture) =>
        /\ fout[1].success
        /\ fout[1].data = <<141, 105, 93, 241>>
        /\ fout[1].hexData = "8D 69 5D F1"
        /\ fout[1].atqa = "05 06"
        /\ fout[1].sak = "00"

\* the text of a reader error for the error codes of HuntReplies
readerErrorText(errorCode) ==
    CASE errorCode = 0 -> "Reader error: 0x00"
      [] errorCode = 5 -> "Reader error: 0x05"
      [] errorCode = 255 -> "Reader error: 0xff"

\* C17: for every response with length byte <= 4 and at least 6 bytes,
\* parseHuntResponse returns a failure: 'No card in field' when byte 4 is 0x6f
\* (as in 04 01 03 00 6f 00 1d cb), a reader-error message for any other
\* byte 4; it never returns success.
C17_ShortReplyIsFailure ==
    (fop = "parseHuntResponse" /\ Len(arg(1)) >= 6 /\ arg(1)[1] <= 4) =>
        /\ ~fout[1].success
        /\ arg(1)[5] = 111 => fout[1].message = "No card in field"
        /\ arg(1)[5] # 111 => fout[1].message = readerErrorText(arg(1)[5])

C17_Witness ==
    /\ fop = "parseHuntResponse"
    /\ arg(1) = NoCardFixture
    /\ ~fout[1].success
    /\ fout[1].message = "No card in field"

C17_WitnessReaderError ==
    /\ fop = "parseHuntResponse"
    /\ Len(arg(1)) >= 6
    /\ arg(1)[1] <= 4
    /\ arg(1)[5] = 5
    /\ fout[1].message = "Reader error: 0x05"

\* C18: parseHuntResponse returns success for a card-found reply only if the
\* status byte at offset 12 is 0x00; for every reply with another status byte
\* it returns a failure whose data is the unmodified raw response.
C18_SuccessOnlyWithZeroStatus ==
    (fop = "parseHuntResponse" /\ Len(arg(1)) >= 13) =>
        /\ fout[1].success => arg(1)[13] = 0
        /\ arg(1)[13] # 0 => (~fout[1].success /\ fout[1].data = arg(1))

ApduDecoders == {"getCardUid", "readBlock", "authenticate", "loadKey"}

\* the payload of the reader's reply: what the frame carries, or the bytes as
\* received when they are not framed
replyPayload(xfer) == parseFrame(xfer.bytes).data

endsWith(p, a, b) == Len(p) >= 2 /\ p[Len(p) - 1] = a /\ p[Len(p)] = b

\* the failure messages that carry the status word of the payload p
statusWordMessages(p) ==
    LET sw == hex2Lower(p[Len(p) - 1]) \o hex2Lower(p[Len(p)])
    IN  {"Error: SW=" \o sw, "Read failed: SW=" \o sw,
         "Authentication failed: SW=" \o sw, "Load key failed: SW=" \o sw}

\* C19: getCardUid, readBlock, authenticate and loadKey return success only if
\* the response payload ends in 90 00, and then the returned data is the payload
\* without those two bytes; a payload ending in 6A 81 gives the 'no card / not
\* supported' failure; every other status word gives a failure whose message
\* contains the status word in hex.
C19_StatusWordDecoded ==
    (fop \in ApduDecoders /\ ~arg(1).threw) =>
        LET p == replyPayload(arg(1))
            result == fout[1]
        IN  /\ result.success =>
                (endsWith(p, 144, 0) /\ result.data = subarray(p, 0, Len(p) - 2))
            /\ (parseFrame(arg(1).bytes).success /\ endsWith(p, 106, 129)) =>
                /\ ~result.success
                /\ result.message = "No card present or function not supported"
            /\ (/\ parseFrame(arg(1).bytes).success
                /\ Len(p) >= 2
                /\ ~endsWith(p, 144, 0)
                /\ ~endsWith(p, 106, 129)
                /\ fop = "loadKey" => Len(arg(3)) = 6) =>
                /\ ~result.success
                /\ result.message \in statusWordMessages(p)

\* an odd number of hex digits, or a character that is neither a hex digit nor
\* white space
malformed(hex) ==
    \/ Cardinality({i \in 1..Len(hex) : isHexDigit(hex[i])}) % 2 = 1
    \/ \E i \in 1..Len(hex) : ~isHexDigit(hex[i]) /\ ~isSpace(hex[i])

\* C20: sendCustomCommand given a malformed hex string (an odd number of hex
\* digits, or a character that is neither a hex digit nor white space) returns a
\* failure and writes nothing to the stream: malformed text is never converted
\* into bytes and sent.
C20_MalformedHexRejected ==
    (fop = "sendCustomCommand" /\ malformed(arg(1))) =>
        /\ ~fout[1].result.success
        /\ fout[1].written = <<>>

\* C21: loadKey called with a key whose length is not 6 returns success=false
\* with the message 'Key must be 6 bytes' and performs no write and no read on
\* the device.
C21_WrongKeyLengthRefused ==
    (fop = "loadKey" /\ Len(arg(3)) # 6) =>
        /\ ~fout[1].success
        /\ fout[1].message = "Key must be 6 bytes"
        /\ fout[2] = <<>>

C21_Witness ==
    /\ fop = "loadKey"
    /\ Len(arg(3)) = 5
    /\ ~arg(1).threw
    /\ endsWith(replyPayload(arg(1)), 144, 0)
    /\ fout[1].message = "Key must be 6 bytes"
    /\ fout[2] = <<>>

\* C25: sendCommand never rejects: for every outcome of the exchange (reader
\* or writer unavailable, no device, write error, timeout, empty response) its
\* promise is fulfilled with a result object, and the result has success=false
\* and a message whenever the exchange threw or returned zero bytes.
C25_SendCommandNeverRejects ==
    fop = "sendCommand" =>
        /\ fout[1].state = "fulfilled"
        /\ fout[1].value.message # ""
        /\ (arg(1).threw \/ arg(1).bytes = <<>>) => ~fout[1].value.success

C25_Witness ==
    /\ fop = "sendCommand"
    /\ arg(1).threw
    /\ fout[1].state = "fulfilled"
    /\ fout[1].value.message = "Command failed: Serial port not ready"

C25_WitnessEmpty ==
    /\ fop = "sendCommand"
    /\ arg(1) = Returned(<<>>)
    /\ fout[1].value.message = "No response from reader"

\* C26: an incomplete response buffer, as the transceiver returns at timeout,
\* is never decoded as a found card: cardHunt returns success=true only for a
\* response buffer that isCompleteFrame accepts.
C26_PartialNeverDecodedAsCard ==
    (cpc = "hunted" /\ huntResult.success) =>
        /\ ~resp.threw
        /\ isCompleteFrame(resp.bytes)

C26_Witness ==
    /\ cpc = "hunted"
    /\ resp = Returned(subarray(CardFoundFixture, 0, 13))
    /\ ~isCompleteFrame(resp.bytes)
    /\ ~huntResult.success
    /\ huntResult.message = "Unknown response (LEN=0xb)"

C26_WitnessFound ==
    /\ cpc = "hunted"
    /\ huntResult.success
    /\ isCompleteFrame(resp.bytes)

\* the version bytes of a response, between the three header bytes and the CRC
versionBytesOf(response) == subarray(response, 3, Len(response) - 2)

\* printable ASCII, NUL terminators allowed
plausibleAscii(bytes) == \A i \in 1..Len(bytes) : bytes[i] = 0 \/ bytes[i] \in 32..126

\* C28: getFirmwareVersion reports success with parsed version fields only when
\* the version bytes of the response are plausible printable ASCII; for any
\* other non-empty response it degrades to a failure that carries the raw hex.
C28_VersionDegradesToRawHex ==
    (fop = "getFirmwareVersion" /\ ~arg(1).threw /\ arg(1).bytes # <<>>) =>
        LET ok == /\ Len(arg(1).bytes) >= 6
                  /\ plausibleAscii(versionBytesOf(arg(1).bytes))
        IN  /\ fout[1].success => ok
            /\ ~ok => (~fout[1].success /\ fout[1].hexData = toHex(arg(1).bytes))

\* C32: the fixed-size tier of isCompleteFrame is needed because the generic
\* rule under-counts: on a buffer whose first byte is 0x04 or 0x0b the generic
\* rule alone reports completeness below the fixed totals 8 and 15. The rule
\* is monotone in the length, so it then reports completeness one byte below
\* the fixed total.
C32_GenericRuleUnderCounts ==
    (fop = "isCompleteFrameTiers" /\ arg(1)[1] \in {4, 11}) =>
        LET total == IF arg(1)[1] = 4 THEN 8 ELSE 15 IN
        Len(arg(1)) = total - 1 => fout[2] = TRUE

\* the two known-size tests never change the result
C32_FixedTierRedundant ==
    fop = "isCompleteFrameTiers" => fout[1] = fout[2]

has(calls, name) == \E i \in 1..Len(calls) : calls[i] = name

\* C40: disconnectSerialPort never throws and always releases the session: on
\* every path, also when reader.cancel() or writer.close() fails, the writer
\* has been closed (close() called on it) and port.close() has been called
\* when it returns.
C40_DisconnectAlwaysReleases ==
    fop = "disconnectSerialPort" =>
        /\ fout[1].state = "fulfilled"
        /\ (arg(1).writer => has(fout[1].called, "writer.close"))
        /\ has(fout[1].called, "port.close")

\* it never throws, and releases the session when nothing fails
C40_DisconnectNeverThrows ==
    fop = "disconnectSerialPort" =>
        /\ fout[1].state = "fulfilled"
        /\ (arg(2) = {} => has(fout[1].completed, "port.close"))

\* C39: isCompleteFrame is monotone on a growing buffer: when it is true of a
\* buffer B it is true of B followed by any non-empty bytes X, in web-serial.ts
\* and in the prefix-skipping version of part_003; the call leaves its
\* argument as it was.
C39_MonotoneOnGrowingBuffer ==
    fop = "isCompleteFrameGrow" =>
        /\ arg(2) # <<>>
        /\ (fout[1] => fout[2])
        /\ (fout[3] => fout[4])
        /\ fout[1] = isCompleteFrame(arg(1))
        /\ fout[3] = isCompleteFrameP3(arg(1))

\* a complete frame behind a DLE and an ACK byte, and a plain complete frame,
\* each grown by one more chunk
C39_Witness ==
    /\ fop = "isCompleteFrameGrow"
    /\ arg(1) = <<16, 1, 0, 0, 0, 0>>
    /\ fout[3] /\ fout[4]
    /\ ~fout[1]

C39_WitnessPlain ==
    /\ fop = "isCompleteFrameGrow"
    /\ arg(1) = NoCardFixture
    /\ arg(2) = <<4, 255>>
    /\ fout = <<TRUE, TRUE, TRUE, TRUE>>

----------------------------------------------------------------------------
(* Claims on the poll loop *)

\* poll k succeeded with a non-empty UID
foundCard(k) == polls[k].success /\ polls[k].hexData \notin {"", Undef}

\* the UID of poll k, none for a failed or no-card poll and before the first
uidOfPoll(k) == IF k >= 1 /\ foundCard(k) THEN polls[k].hexData ELSE ""

\* C22: the polling loop is edge-triggered: onCardDetected is invoked after
\* poll k exactly when poll k succeeded with a non-empty UID that differs from
\* the UID of poll k-1 (a failed or no-card poll counting as no UID), with that
\* UID; consecutive successful polls with the same UID invoke it once.
C22_EdgeTriggered ==
    /\ \A k \in 1..Len(polls) :
        (foundCard(k) /\ uidOfPoll(k) # uidOfPoll(k - 1))
            <=> (\E i \in 1..Len(detected) : detected[i].poll = k)
    /\ \A i \in 1..Len(detected) :
        /\ detected[i].uid = uidOfPoll(detected[i].poll)
        /\ \A j \in 1..Len(detected) : detected[j].poll = detected[i].poll => j = i

C22_Witness ==
    /\ Len(polls) = 4
    /\ uidOfPoll(1) = "8D 69 5D F1"
    /\ uidOfPoll(2) = "8D 69 5D F1"
    /\ uidOfPoll(3) = ""
    /\ uidOfPoll(4) = "8D 69 5D F1"
    /\ detected = <<[poll |-> 1, uid |-> "8D 69 5D F1"], [poll |-> 4, uid |-> "8D 69 5D F1"]>>

\* C23: the polling loop fires its callback on the transition to 'no card':
\* when a poll finds no card right after a poll that found one, the callback is
\* invoked to report it.
C23_CallbackOnCardRemoved ==
    \A k \in 2..Len(polls) :
        (foundCard(k - 1) /\ ~foundCard(k)) =>
            \E i \in 1..Len(detected) : detected[i].poll = k

\* C24: after the stop function is called the loop begins no new getCardUid; an
\* exchange in flight is not aborted, it runs to its end and its result is
\* taken; and when that exchange ends, the loop terminates.
C24_CooperativeStop ==
    /\ [][stopped => (ppc' = "exchange" => ppc = "exchange")]_vars
    /\ [][(stopped /\ ppc = "exchange" /\ ppc' # "exchange")
            => (ppc' = "sleep" /\ Len(polls') = Len(polls) + 1)]_vars
    /\ (stopped ~> ppc = "done")

C24_Witness ==
    /\ stopped
    /\ ppc = "done"
    /\ Len(polls) = 2
    /\ detected # <<>>
    /\ detected[Len(detected)].poll = 2

\* C37: once the stop function returned by startPolling has been called,
\* onCardDetected is never invoked again, even if a getCardUid that was in
\* flight at that moment completes with a new UID.
C37_NoCallbackAfterStop == [][stopped => detected' = detected]_vars


====
